---- MODULE Spec2Model ----
(***************************************************************************)
(* The credential-exchange handshake of smart-health-checkin-demo:         *)
(* request() (the request orchestrator) in its two profiles, the OID4VP    *)
(* library (smart-health-checkin.ts) and the simple profile                *)
(* (requester/shl.js), the relay (BroadcastChannel 'shl-' + state), the    *)
(* popup handle and the return handler maybeHandleReturn().                *)
(*                                                                         *)
(* Exchanges are numbered in the order request() is called.  The body of   *)
(* request() is split at the points where another browsing context can     *)
(* observe it (channel created, callback run, popup opened); events of     *)
(* the requester context itself (timer callbacks, message events) run      *)
(* only when no body is on the stack, as the single-threaded event loop    *)
(* prescribes.                                                             *)
(***************************************************************************)
EXTENDS Integers, Sequences, FiniteSets, TLC

\* ------------------------------------------------------------------ bounds
MaxReq == 2
MaxMsgs == 2
MaxLen == 2

Exchanges == 1..MaxReq

\* ------------------------------------------------------------- JS values
\* undefined / a missing property
Absent == "undefined"
\* JavaScript truthiness of a string-or-undefined value
Truthy(x) == x \notin {Absent, ""}

\* The tokens generateRandomState() can return.  128 random bits are modelled
\* as a token no earlier call has returned.
Tokens == 1..(2 * MaxReq)
\* A state no request() ever generated (a stale or foreign exchange).
Foreign == 0
\* No state at all (the parameter or property is missing)
NoState == 0 - 1

\* (variant of generateRandomState that returns the same token on every call)
generateRandomState_fixed(used) == 1
generateRandomState(used) == CHOOSE t \in Tokens \ used : \A u \in Tokens \ used : t <= u

\* ---------------------------------------------------------------- payloads
\* vp_token values: credential id -> list of presentations {artifact: index}
VpTokenOf(name) ==
    CASE name = "V1" -> [a |-> <<0, 1>>, b |-> <<0>>]
      [] name = "V2" -> [a |-> <<1>>, b |-> <<>>]
      [] OTHER -> [a |-> <<>>, b |-> <<>>]

\* smart_artifacts values: list of {type, data}
ArtifactsOf(name) ==
    CASE name = "A1" -> << [type |-> "fhir_resource", data |-> "X"],
                           [type |-> "shl", data |-> "Y"] >>
      [] OTHER -> << >>


\* ------------------------------------------------------------ inputs
\* opts.checkinBase: a missing property, or a string over the two characters
\* that matter to replace(/\/+$/, ''): "/" and any other character "u".
NoBase == [present |-> FALSE, val |-> << >>]
Base(v) == [present |-> TRUE, val |-> v]
CheckinBases == {NoBase, Base(<< >>), Base(<<"/", "/">>), Base(<<"u", "/">>)}

\* s.replace(/\/+$/, '')
RECURSIVE StripTrailingSlashes(_)
StripTrailingSlashes(s) ==
    IF s # << >> /\ s[Len(s)] = "/"
    THEN StripTrailingSlashes(SubSeq(s, 1, Len(s) - 1))
    ELSE s

\* The query argument: null/undefined, an object whose item list is not an
\* array, or an object with a list of item ids (dcqlQuery.credentials in the
\* OID4VP library, credentialRequest.digital.requests in the simple profile).
Query(t, a, ids) == [truthy |-> t, isArray |-> a, ids |-> ids]
NullQuery == Query(FALSE, FALSE, << >>)
NoArrayQuery == Query(TRUE, FALSE, << >>)
EmptyQuery == Query(TRUE, TRUE, << >>)
DupQuery == Query(TRUE, TRUE, <<"a", "a">>)
GoodQuery == Query(TRUE, TRUE, <<"a", "b">>)

\* RequestOptions as the caller passes them (profile: which of the two
\* libraries is called)
Opts(prof, base, rh, cb) ==
    [profile |-> prof, checkinBase |-> base, rehydrate |-> rh, onRequestStart |-> cb]

\* (variant of Retained in which rehydration has to be asked for)
Retained_rehydrateOptIn(o) ==
    [profile |-> o.profile,
     checkinBase |-> StripTrailingSlashes(o.checkinBase.val),
     shouldRehydrate |-> o.rehydrate = "true",
     onRequestStart |-> o.onRequestStart]

\* What the closure of a call keeps of them: the stripped checkinBase,
\* shouldRehydrate = opts.rehydrate !== false, and the callback
Retained(o) ==
    [profile |-> o.profile,
     checkinBase |-> StripTrailingSlashes(o.checkinBase.val),
     shouldRehydrate |-> o.rehydrate # "false",
     onRequestStart |-> o.onRequestStart]

\* The calls of request() the model makes: the plain call, and each argument
\* varied on its own (and the two invalid arguments together).
RequestInputs ==
    {<<GoodQuery, Opts(prof, b, Absent, "none")>> :
        prof \in {"oid4vp", "simple"}, b \in CheckinBases}
    \cup {<<q, Opts(prof, Base(<<"u", "/">>), Absent, "none")>> :
        prof \in {"oid4vp", "simple"},
        q \in {NullQuery, NoArrayQuery, EmptyQuery}}
    \cup {<<DupQuery, Opts("oid4vp", Base(<<"u", "/">>), Absent, "none")>>}
    \cup {<<NullQuery, Opts(prof, b, Absent, "none")>> :
        prof \in {"oid4vp", "simple"}, b \in {NoBase, Base(<< >>)}}
    \cup {<<GoodQuery, Opts("oid4vp", Base(<<"u", "/">>), rh, "none")>> :
        rh \in {"true", "false", "null"}}
    \cup {<<GoodQuery, Opts("oid4vp", Base(<<"u", "/">>), Absent, cb)>> :
        cb \in {"returns", "throws"}}

\* A query as the spec requires it: at least one item, no id twice.
ValidQuery(q) ==
    /\ q.truthy /\ q.isArray /\ q.ids # << >>
    /\ \A i, j \in 1..Len(q.ids) : q.ids[i] = q.ids[j] => i = j

\* ------------------------------------------------------------ promises
Pending ==
    [status |-> "pending", kind |-> Absent, message |-> Absent, code |-> Absent,
     state |-> Foreign, vp_token |-> Absent, smart_artifacts |-> Absent,
     credentials |-> << >>, data |-> Absent]

\* new Error(message), optionally with code and state (SHLError)
Rejected(kind, message, code, st) ==
    [Pending EXCEPT !.status = "rejected", !.kind = kind, !.message = message,
                    !.code = code, !.state = st]

\* resolve()/reject() of a promise: only the first call takes effect
Settle(p, outcome) == IF p.status = "pending" THEN outcome ELSE p

\* ---------------------------------------------------------- rehydration
\* (variant of ArtifactData that reads the artifact array 1-based)
ArtifactData_oneBased(arts, idx) ==
    IF idx \in 1..Len(arts) THEN arts[idx].data ELSE Absent

\* artifact?.data !== undefined ? artifact.data : artifact
\* (artifact indices are 0-based; an index outside the array gives undefined)
ArtifactData(arts, idx) ==
    IF idx + 1 \in 1..Len(arts) THEN arts[idx + 1].data ELSE Absent

\* (variant of rehydrateCredentials that keeps the first presentation of an id only)
rehydrateCredentials_firstOnly(vp, arts) ==
    [id \in DOMAIN vp |->
        [i \in 1..(IF Len(vp[id]) > 0 THEN 1 ELSE 0) |-> ArtifactData(arts, vp[id][i])]]

\* The credentials mapping rehydrateResponse builds: for each [id, presentations]
\* of Object.entries(vp_token), presentations.map(p => data of smart_artifacts[p.artifact])
rehydrateCredentials(vp, arts) ==
    [id \in DOMAIN vp |->
        [i \in 1..Len(vp[id]) |-> ArtifactData(arts, vp[id][i])]]

rehydrateResponse(vpName, artName) ==
    rehydrateCredentials(VpTokenOf(vpName), ArtifactsOf(artName))

\* A vp_token that is JSON but maps an id to something that is no array, such
\* as {"a": 1}: presentations.map is not a function and rehydrateResponse
\* throws TypeError
MalformedVpTokens == {"VX"}
RehydrateThrows(vpName) == vpName \in MalformedVpTokens

\* ------------------------------------------------------------ messages
\* A relay message (ev.data).  nul: the message is null.  res is the encoded
\* response envelope of the simple profile: << >> when missing, <<"bad">> when
\* it is no base64url of JSON, <<"env", state, payload>> otherwise.
Msg(st, err, desc, vp, arts, res) ==
    [nul |-> FALSE, state |-> st, error |-> err, error_description |-> desc,
     vp_token |-> vp, smart_artifacts |-> arts, res |-> res]
NullMsg == [Msg(Foreign, Absent, Absent, Absent, Absent, << >>) EXCEPT !.nul = TRUE]

\* (variant of broadcastMessage that posts the state alone)
broadcastMessage_stateOnly(st, data) ==
    Msg(st, Absent, Absent, Absent, Absent, << >>)

\* { state, ...data }: a state inside data overrides the argument
broadcastMessage(st, data) ==
    Msg(IF data.hasState THEN data.state ELSE st,
        data.error, data.error_description, data.vp_token, data.smart_artifacts, << >>)

Data(err, desc, vp, arts) ==
    [hasState |-> FALSE, state |-> Foreign, error |-> err, error_description |-> desc,
     vp_token |-> vp, smart_artifacts |-> arts]

\* What a same-origin page posts on the channel of state s: messages of the
\* shape the listening library expects: well-formed, incomplete, with a
\* vp_token that is no mapping to arrays, with a foreign state, without a
\* state, null.
RawMessages(s, prof) ==
    IF prof = "oid4vp" THEN
        { NullMsg,
          Msg(Foreign, "access_denied", Absent, "V1", "A1", << >>),
          Msg(NoState, Absent, Absent, "V1", "A1", << >>),
          Msg(s, "access_denied", "User declined", Absent, Absent, << >>),
          Msg(s, "access_denied", Absent, Absent, Absent, << >>),
          Msg(s, "invalid_request", Absent, "V1", "A1", << >>),
          Msg(s, Absent, Absent, "V1", "A1", << >>),
          Msg(s, Absent, Absent, "V2", "A1", << >>),
          Msg(s, Absent, Absent, "VX", "A1", << >>),
          Msg(s, Absent, Absent, "V1", Absent, << >>) }
    ELSE
        { NullMsg,
          Msg(Foreign, Absent, Absent, Absent, Absent, <<"env", s, "P1">>),
          Msg(s, Absent, Absent, Absent, Absent, <<"bad">>),
          Msg(s, Absent, Absent, Absent, Absent, <<"env", s, "P1">>),
          Msg(s, Absent, Absent, Absent, Absent, <<"env", s, "P2">>),
          Msg(s, Absent, Absent, Absent, Absent, <<"env", Foreign, "P1">>) }

\* ------------------------------------------------- chan.onmessage handlers
\* A handler run either returns early (exit names the test that made it
\* return) or runs cleanup() and settles `done`
Ignore(exit) == [act |-> "ignore", exit |-> exit, outcome |-> Pending]
SettleWith(o) == [act |-> "settle", exit |-> "settled", outcome |-> o]
\* cleanup() ran and then the handler threw before resolve() or reject(): the
\* exception leaves the event handler, `done` is not settled
ThrowsAfterCleanup == [act |-> "throw", exit |-> "threw", outcome |-> Pending]

\* (mutant of onmessage: msg.state is not compared with state)
onmessage_noStateCheck(st, shouldRehydrate, msg) ==
    IF msg.nul THEN Ignore("null")
    ELSE IF Truthy(msg.error) THEN
        SettleWith(Rejected("remote",
            IF Truthy(msg.error_description) THEN msg.error_description ELSE msg.error,
            msg.error, msg.state))
    ELSE IF Truthy(msg.vp_token) /\ Truthy(msg.smart_artifacts) THEN
        IF shouldRehydrate /\ RehydrateThrows(msg.vp_token) THEN ThrowsAfterCleanup
        ELSE SettleWith([Pending EXCEPT
            !.status = "resolved", !.kind = "response", !.state = msg.state,
            !.vp_token = msg.vp_token, !.smart_artifacts = msg.smart_artifacts,
            !.credentials = IF shouldRehydrate
                THEN << rehydrateResponse(msg.vp_token, msg.smart_artifacts) >>
                ELSE << >>])
    ELSE Ignore("incomplete")

\* (mutant of onmessage: the error text is always the error code)
onmessage_textIsCode(st, shouldRehydrate, msg) ==
    IF msg.nul THEN Ignore("null")
    ELSE IF msg.state # st THEN Ignore("state")
    ELSE IF Truthy(msg.error) THEN
        SettleWith(Rejected("remote", msg.error, msg.error, msg.state))
    ELSE IF Truthy(msg.vp_token) /\ Truthy(msg.smart_artifacts) THEN
        IF shouldRehydrate /\ RehydrateThrows(msg.vp_token) THEN ThrowsAfterCleanup
        ELSE SettleWith([Pending EXCEPT
            !.status = "resolved", !.kind = "response", !.state = msg.state,
            !.vp_token = msg.vp_token, !.smart_artifacts = msg.smart_artifacts,
            !.credentials = IF shouldRehydrate
                THEN << rehydrateResponse(msg.vp_token, msg.smart_artifacts) >>
                ELSE << >>])
    ELSE Ignore("incomplete")

\* (variant of onmessage that rejects on a matching message that is neither
\* an error nor a complete success)
onmessage_rejectsIncomplete(st, shouldRehydrate, msg) ==
    IF msg.nul THEN Ignore("null")
    ELSE IF msg.state # st THEN Ignore("state")
    ELSE IF Truthy(msg.error) THEN
        SettleWith(Rejected("remote",
            IF Truthy(msg.error_description) THEN msg.error_description ELSE msg.error,
            msg.error, msg.state))
    ELSE IF Truthy(msg.vp_token) /\ Truthy(msg.smart_artifacts) THEN
        IF shouldRehydrate /\ RehydrateThrows(msg.vp_token) THEN ThrowsAfterCleanup
        ELSE SettleWith([Pending EXCEPT
            !.status = "resolved", !.kind = "response", !.state = msg.state,
            !.vp_token = msg.vp_token, !.smart_artifacts = msg.smart_artifacts,
            !.credentials = IF shouldRehydrate
                THEN << rehydrateResponse(msg.vp_token, msg.smart_artifacts) >>
                ELSE << >>])
    ELSE SettleWith(Rejected("remote", "incomplete", Absent, msg.state))

\* OID4VP library: what the handler of an exchange with this state does
onmessage(st, shouldRehydrate, msg) ==
    IF msg.nul THEN Ignore("null")
    ELSE IF msg.state # st THEN Ignore("state")
    ELSE IF Truthy(msg.error) THEN
        SettleWith(Rejected("remote",
            IF Truthy(msg.error_description) THEN msg.error_description ELSE msg.error,
            msg.error, msg.state))
    ELSE IF Truthy(msg.vp_token) /\ Truthy(msg.smart_artifacts) THEN
        IF shouldRehydrate /\ RehydrateThrows(msg.vp_token) THEN ThrowsAfterCleanup
        ELSE SettleWith([Pending EXCEPT
            !.status = "resolved", !.kind = "response", !.state = msg.state,
            !.vp_token = msg.vp_token, !.smart_artifacts = msg.smart_artifacts,
            !.credentials = IF shouldRehydrate
                THEN << rehydrateResponse(msg.vp_token, msg.smart_artifacts) >>
                ELSE << >>])
    ELSE Ignore("incomplete")

\* (variant of onmessageSimple that ignores a res it cannot decode)
onmessageSimple_ignoresUndecodable(st, msg) ==
    IF msg.nul THEN Ignore("null")
    ELSE IF msg.state # st THEN Ignore("state")
    ELSE IF msg.res = << >> THEN Ignore("nores")
    ELSE IF msg.res[1] # "env" THEN Ignore("inner")
    ELSE IF msg.res[2] # st THEN Ignore("inner")
    ELSE SettleWith([Pending EXCEPT
            !.status = "resolved", !.kind = "digital_credential", !.data = msg.res[3]])

\* (variant of onmessageSimple that does not compare the envelope's state)
onmessageSimple_noInnerCheck(st, msg) ==
    IF msg.nul THEN Ignore("null")
    ELSE IF msg.state # st THEN Ignore("state")
    ELSE IF msg.res = << >> THEN Ignore("nores")
    ELSE IF msg.res[1] # "env" THEN
        SettleWith(Rejected("decode", "decode error", Absent, Foreign))
    ELSE SettleWith([Pending EXCEPT
            !.status = "resolved", !.kind = "digital_credential", !.data = msg.res[3]])

\* Simple profile: decJ(msg.res) throws on <<"bad">>, and ret.state throws
\* when the text decodes to null; both land in the catch block
onmessageSimple(st, msg) ==
    IF msg.nul THEN Ignore("null")
    ELSE IF msg.state # st THEN Ignore("state")
    ELSE IF msg.res = << >> THEN Ignore("nores")
    ELSE IF msg.res[1] # "env" THEN
        SettleWith(Rejected("decode", "decode error", Absent, Foreign))
    ELSE IF msg.res[2] # st THEN Ignore("inner")
    ELSE SettleWith([Pending EXCEPT
            !.status = "resolved", !.kind = "digital_credential", !.data = msg.res[3]])

\* (mutant of clearTimeout: the timer stays armed)
clearTimeout_noop(t) == t
\* clearTimeout(id): an armed timer is cancelled, one that fired is not touched
clearTimeout(t) == IF t = "armed" THEN "cleared" ELSE t

\* (mutant of cleanup: the channel is not closed)
cleanup_keepsChannel(t, c, p) ==
    [timeoutId |-> clearTimeout(t), chan |-> c,
     popup |-> IF p = "open" THEN "closed" ELSE p]
\* (mutant of cleanup: the popup is not closed)
cleanup_leavesPopup(t, c, p) ==
    [timeoutId |-> clearTimeout(t), chan |-> "closed", popup |-> p]
\* clearTimeout(timeoutId); chan.close(); if (popup && !popup.closed) popup.close()
cleanup(t, c, p) ==
    [timeoutId |-> clearTimeout(t), chan |-> "closed",
     popup |-> IF p = "open" THEN "closed" ELSE p]


\* ------------------------------------------------------ return fragments
\* location.hash without its '#', as the list of key/value pairs
\* URLSearchParams sees.  The values of vp_token and smart_artifacts are JSON
\* texts, named by the value they parse to; "notjson" does not parse.
Has(p, k) == \E i \in 1..Len(p) : p[i][1] = k
\* p.get(k): the first value of k
Get(p, k) == p[CHOOSE i \in 1..Len(p) : p[i][1] = k /\ \A j \in 1..(i - 1) : p[j][1] # k][2]
GetStr(p, k) == IF Has(p, k) THEN Get(p, k) ELSE Absent
\* (variant of GetState that takes a missing state for a foreign one)
GetState_orForeign(p) == IF Has(p, "state") THEN Get(p, "state") ELSE Foreign
GetState(p) == IF Has(p, "state") THEN Get(p, "state") ELSE NoState

NotAReturn == [type |-> "null", state |-> NoState, error |-> Absent,
               error_description |-> Absent, vp_token |-> Absent,
               smart_artifacts |-> Absent]

\* (variant of parseReturnHash that looks for the success parameters before
\* the error parameter)
parseReturnHash_successFirst(hash) ==
    IF hash = << >> THEN NotAReturn
    ELSE IF GetState(hash) = NoState THEN NotAReturn
    ELSE IF Truthy(GetStr(hash, "vp_token")) /\ Truthy(GetStr(hash, "smart_artifacts")) THEN
        IF "notjson" \in {GetStr(hash, "vp_token"), GetStr(hash, "smart_artifacts")}
        THEN [NotAReturn EXCEPT !.type = "throws"]
        ELSE [NotAReturn EXCEPT !.type = "success", !.state = GetState(hash),
                !.vp_token = GetStr(hash, "vp_token"),
                !.smart_artifacts = GetStr(hash, "smart_artifacts")]
    ELSE IF Truthy(GetStr(hash, "error")) THEN
        [NotAReturn EXCEPT !.type = "error", !.state = GetState(hash),
            !.error = GetStr(hash, "error"),
            !.error_description =
                IF Truthy(GetStr(hash, "error_description"))
                THEN GetStr(hash, "error_description") ELSE Absent]
    ELSE NotAReturn

parseReturnHash(hash) ==
    IF hash = << >> THEN NotAReturn
    ELSE IF GetState(hash) = NoState THEN NotAReturn
    ELSE IF Truthy(GetStr(hash, "error")) THEN
        [NotAReturn EXCEPT !.type = "error", !.state = GetState(hash),
            !.error = GetStr(hash, "error"),
            !.error_description =
                IF Truthy(GetStr(hash, "error_description"))
                THEN GetStr(hash, "error_description") ELSE Absent]
    ELSE IF Truthy(GetStr(hash, "vp_token")) /\ Truthy(GetStr(hash, "smart_artifacts")) THEN
        IF "notjson" \in {GetStr(hash, "vp_token"), GetStr(hash, "smart_artifacts")}
        THEN [NotAReturn EXCEPT !.type = "throws"]
        ELSE [NotAReturn EXCEPT !.type = "success", !.state = GetState(hash),
                !.vp_token = GetStr(hash, "vp_token"),
                !.smart_artifacts = GetStr(hash, "smart_artifacts")]
    ELSE NotAReturn

\* The fragments the requester's page is loaded with: none, an unrelated
\* one, and the responses a source builds for a state s it was launched with
ReturnHashes(s) ==
    { << >>,
      << <<"tab", "about">> >>,
      << <<"state", s>>, <<"error", "access_denied">> >>,
      << <<"error", "access_denied">>, <<"error_description", "User declined">>,
         <<"state", s>> >>,
      << <<"vp_token", "V1">>, <<"smart_artifacts", "A1">>, <<"state", s>> >>,
      << <<"vp_token", "V2">>, <<"smart_artifacts", "A1">>, <<"state", s>> >> }

\* What a return page does to the world outside its script, in program
\* order: "post" (bc.postMessage), "bcclose" (bc.close on the page's own
\* channel handle), "notice" (the document is rewritten), "close"
\* (window.close)
\* broadcastResponse: postMessage, then close of the handle
BroadcastEffects == <<"post", "bcclose">>

\* (variant of ReturnEffects in which the window is closed before the
\* response is broadcast)
ReturnEffects_closeFirst(renderUI) ==
    (IF renderUI THEN <<"notice", "close">> ELSE << >>) \o BroadcastEffects

\* maybeHandleReturn of the OID4VP library, in either response branch:
\* broadcastResponse(...), then under renderUI renderReturnUI(...) and
\* window.close()
ReturnEffects(renderUI) ==
    BroadcastEffects \o (IF renderUI THEN <<"notice", "close">> ELSE << >>)

\* maybeHandleReturn of the simple profile: bc.postMessage, bc.close,
\* document.body.innerHTML = ..., window.close()
ReturnEffectsSimple == <<"post", "bcclose", "notice", "close">>

\* maybeHandleReturn(opts) of the OID4VP library in a page whose location.hash
\* is `hash`: the value its promise settles with ("throws": JSON.parse threw
\* inside parseReturnHash and the promise is rejected), the messages it
\* posted (channel name 'shl-' + channel, message), the notice renderReturnUI
\* put into the document, and whether window.close() was called
maybeHandleReturn(hash, renderUI) ==
    LET parsed == parseReturnHash(hash)
        nothing == [returned |-> "false", published |-> << >>, notice |-> << >>,
                    closeAttempted |-> FALSE, effects |-> << >>]
    IN  CASE parsed.type = "throws" -> [nothing EXCEPT !.returned = "throws"]
          [] parsed.type = "error" ->
                [returned |-> "true",
                 published |-> << [channel |-> parsed.state,
                                   msg |-> broadcastMessage(parsed.state,
                                       Data(parsed.error, parsed.error_description,
                                            Absent, Absent))] >>,
                 notice |-> IF renderUI
                            THEN << "failure",
                                    IF Truthy(parsed.error_description)
                                    THEN parsed.error_description ELSE parsed.error >>
                            ELSE << >>,
                 closeAttempted |-> renderUI,
                 effects |-> ReturnEffects(renderUI)]
          [] parsed.type = "success" ->
                [returned |-> "true",
                 published |-> << [channel |-> parsed.state,
                                   msg |-> broadcastMessage(parsed.state,
                                       Data(Absent, Absent, parsed.vp_token,
                                            parsed.smart_artifacts))] >>,
                 notice |-> IF renderUI
                            THEN << "success", "You can close this window." >>
                            ELSE << >>,
                 closeAttempted |-> renderUI,
                 effects |-> ReturnEffects(renderUI)]
          [] OTHER -> nothing

\* (variant of maybeHandleReturnSimple that does not test ret.state)
maybeHandleReturnSimple_noStateTest(res) ==
    IF res = << >> \/ res[1] # "env"
    THEN [returned |-> "false", published |-> << >>, notice |-> << >>,
          closeAttempted |-> FALSE, effects |-> << >>]
    ELSE [returned |-> "true",
          published |-> << [channel |-> res[2],
                            msg |-> Msg(res[2], Absent, Absent, Absent, Absent, res)] >>,
          notice |-> << "success", "Data shared successfully." >>,
          closeAttempted |-> TRUE, effects |-> ReturnEffectsSimple]

\* maybeHandleReturn() of the simple profile in a page whose fragment has the
\* res parameter `res` (<< >>: no fragment or no res): false without res,
\* false from the catch block when decJ throws, false when the envelope has
\* no state; otherwise { state: ret.state, res } is posted on 'shl-' +
\* ret.state, the notice is written, window.close() is called, true returned
maybeHandleReturnSimple(res) ==
    IF res = << >> \/ res[1] # "env" \/ res[2] = NoState
    THEN [returned |-> "false", published |-> << >>, notice |-> << >>,
          closeAttempted |-> FALSE, effects |-> << >>]
    ELSE [returned |-> "true",
          published |-> << [channel |-> res[2],
                            msg |-> Msg(res[2], Absent, Absent, Absent, Absent, res)] >>,
          notice |-> << "success", "Data shared successfully." >>,
          closeAttempted |-> TRUE, effects |-> ReturnEffectsSimple]

\* Simple profile: the value of the res parameter, << >> when there is none
ReturnRes(s) ==
    { << >>, <<"bad">>, <<"env", NoState, "P1">>,
      <<"env", s, "P1">>, <<"env", s, "P2">> }


\* ---------------------------------------------------------------- state
VARIABLES
    pc,         \* per exchange: where the body of request() stands
    opts,       \* per exchange: what the call's closure keeps of its options
    dcqlQuery,  \* per exchange: the query the call goes on with
    state,      \* per exchange: const state
    nonce,      \* per exchange: const nonce (OID4VP library only)
    chan,       \* per exchange: the BroadcastChannel 'shl-' + state
    timeoutId,  \* per exchange: the timer set by setTimeout
    popup,      \* per exchange: the handle window.open returned
    done,       \* per exchange: the inner promise `done`
    result,     \* per exchange: the promise request() returned
    settles,    \* per exchange: how often resolve()/reject() of `done` was called
    inbox,      \* per exchange: message events queued for chan, oldest first
    handled,    \* per exchange: the message events taken off the queue so far,
                \* each with the way its handling ended (history)
    page,       \* the page under observation that was loaded at the requester's
                \* URL: its fragment and what maybeHandleReturn() did in it
    flow,       \* the popup under observation: the navigations that carried it
                \* from the requester to the picker, the source and back
    calc,       \* a call of rehydrateResponse under observation
    start,      \* per exchange, under observation: what opts.onRequestStart was
                \* called with and the URL window.open was called with
    codec       \* an envelope of the simple profile under observation: its
                \* encoded text and what decoding the text gave

\* The requester's context and the relay
reqvars == <<pc, opts, dcqlQuery, state, nonce, chan, timeoutId, popup, done, result,
             settles, inbox, handled>>
\* The contexts under observation
aux == <<page, flow, calc, start, codec>>
vars == <<pc, opts, dcqlQuery, state, nonce, chan, timeoutId, popup, done, result,
          settles, inbox, handled, page, flow, calc, start, codec>>

NoOpts == Retained(Opts("oid4vp", NoBase, Absent, "none"))

InitRequester ==
    /\ pc = [e \in Exchanges |-> "idle"]
    /\ opts = [e \in Exchanges |-> NoOpts]
    /\ dcqlQuery = [e \in Exchanges |-> NullQuery]
    /\ state = [e \in Exchanges |-> Foreign]
    /\ nonce = [e \in Exchanges |-> Foreign]
    /\ chan = [e \in Exchanges |-> "none"]
    /\ timeoutId = [e \in Exchanges |-> "none"]
    /\ popup = [e \in Exchanges |-> "none"]
    /\ done = [e \in Exchanges |-> Pending]
    /\ result = [e \in Exchanges |-> Pending]
    /\ settles = [e \in Exchanges |-> 0]
    /\ inbox = [e \in Exchanges |-> << >>]
    /\ handled = [e \in Exchanges |-> << >>]

\* No page, popup or call is under observation
NoPage == [loaded |-> FALSE, hash |-> << >>, renderUI |-> Absent, returned |-> "none",
           published |-> << >>, notice |-> << >>, closeAttempted |-> FALSE,
           effects |-> << >>]
NoFlow == [stage |-> "none", navs |-> << >>, req |-> << >>, launch |-> << >>,
           pickerOpen |-> FALSE, sourceWindow |-> "none", pickerDid |-> << >>,
           saw |-> [c \in {"requester", "picker", "source"} |-> {}]]
NoCalc == [ids |-> << >>, state |-> Foreign, vp_token |-> << >>, smart_artifacts |-> << >>,
           called |-> FALSE, credentials |-> << >>, returned |-> << >>]

NoStart == [e \in Exchanges |-> [calls |-> << >>, url |-> << >>]]
NoCodec == [stage |-> "none", env |-> << >>, text |-> << >>, decoded |-> << >>]

Init ==
    /\ InitRequester
    /\ page = NoPage
    /\ flow = NoFlow
    /\ calc = NoCalc
    /\ start = NoStart
    /\ codec = NoCodec
\* A body of request() is on the stack of the requester's event loop
Busy == \E e \in Exchanges : pc[e] \in {"armed", "built"}

UsedTokens == {state[e] : e \in Exchanges} \cup {nonce[e] : e \in Exchanges}

\* The states a page other than the requester has seen: those of the popups
\* that were opened (the state travels in the popup's URL).
Known == {state[e] : e \in {x \in Exchanges : popup[x] \in {"open", "closed"}}}

\* The number of message events queued so far in the run
RECURSIVE Posted(_)
Posted(S) ==
    IF S = {} THEN 0
    ELSE LET e == CHOOSE x \in S : TRUE
         IN  Len(inbox[e]) + Len(handled[e]) + Posted(S \ {e})

\* ------------------------------------------------- request(): validation
\* The error request() throws before it creates anything, or "none".
\* OID4VP library: opts.checkinBase.replace(...) on a missing property is a
\* TypeError; then 'checkinBase required'; then the dcqlQuery check.
\* Simple profile: 'digital.requests[0] required' first, then
\* (opts?.checkinBase || opts?.gatewayBase || '') and 'checkinBase required'.
validate(q, o) ==
    IF o.profile = "oid4vp" THEN
        IF ~o.checkinBase.present THEN "TypeError"
        ELSE IF StripTrailingSlashes(o.checkinBase.val) = << >> THEN "checkinBase required"
        ELSE IF ~q.truthy \/ ~q.isArray THEN "dcqlQuery must be an object with a credentials array"
        ELSE "none"
    ELSE
        IF ~q.truthy \/ ~q.isArray \/ q.ids = << >> THEN "digital.requests[0] required"
        ELSE IF StripTrailingSlashes(o.checkinBase.val) = << >> THEN "checkinBase required"
        ELSE "none"

Throw(e, kind) ==
    /\ pc' = [pc EXCEPT ![e] = "threw"]
    /\ result' = [result EXCEPT ![e] = Rejected(kind, kind, Absent, Foreign)]

\* When the body ends, the locals that no surviving closure (timer callback,
\* chan.onmessage, cleanup) refers to are gone: the query, the checkinBase
\* and the callback.  state, shouldRehydrate, chan, popup and timeoutId stay.
EndOfBody(e) ==
    /\ opts' = [opts EXCEPT ![e].checkinBase = << >>, ![e].onRequestStart = "none"]
    /\ dcqlQuery' = [dcqlQuery EXCEPT ![e] = NullQuery]

\* (mutant of Setup: the channel is not created before the popup is opened)
Setup_subscribeLate(e, q, o) ==
    LET s == generateRandomState(UsedTokens)
        n == IF o.profile = "oid4vp"
             THEN generateRandomState(UsedTokens \cup {s})
             ELSE Foreign
    IN  /\ opts' = [opts EXCEPT ![e] = Retained(o)]
        /\ dcqlQuery' = [dcqlQuery EXCEPT ![e] = q]
        /\ state' = [state EXCEPT ![e] = s]
        /\ nonce' = [nonce EXCEPT ![e] = n]
        /\ chan' = chan
        /\ timeoutId' = [timeoutId EXCEPT ![e] = "armed"]

\* Generate state and nonce, create the channel 'shl-' + state, and in the
\* Promise executor arm the timer and install chan.onmessage
Setup(e, q, o) ==
    LET s == generateRandomState(UsedTokens)
        n == IF o.profile = "oid4vp"
             THEN generateRandomState(UsedTokens \cup {s})
             ELSE Foreign
    IN  /\ opts' = [opts EXCEPT ![e] = Retained(o)]
        /\ dcqlQuery' = [dcqlQuery EXCEPT ![e] = q]
        /\ state' = [state EXCEPT ![e] = s]
        /\ nonce' = [nonce EXCEPT ![e] = n]
        /\ chan' = [chan EXCEPT ![e] = "open"]
        /\ timeoutId' = [timeoutId EXCEPT ![e] = "armed"]

\* request(), up to the end of the Promise executor
RequestCall(e, q, o) ==
    /\ pc[e] = "idle"
    /\ \A x \in 1..(e - 1) : pc[x] # "idle"
    /\ ~Busy
    /\ IF validate(q, o) # "none"
       THEN /\ Throw(e, validate(q, o))
            /\ UNCHANGED <<opts, dcqlQuery, state, nonce, chan, timeoutId>>
       ELSE /\ Setup(e, q, o)
            /\ pc' = [pc EXCEPT ![e] = "armed"]
            /\ UNCHANGED result
    /\ UNCHANGED <<popup, done, settles, inbox, handled>>
    /\ UNCHANGED aux

\* The library calls opts.onRequestStart: the OID4VP library when the option
\* is truthy; the simple profile never reads the option
CallsBack(o) == o.profile = "oid4vp" /\ o.onRequestStart # "none"

\* Build the request parameters and run opts.onRequestStart, if any: the
\* requester's side of it (what the callback is given is followed in StartSpec)
Build(e) ==
    /\ pc[e] = "armed"
    /\ IF CallsBack(opts[e]) /\ opts[e].onRequestStart = "throws"
       THEN Throw(e, "callback") /\ EndOfBody(e)
       ELSE /\ pc' = [pc EXCEPT ![e] = "built"]
            /\ UNCHANGED <<result, opts, dcqlQuery>>
    /\ UNCHANGED <<state, nonce, chan, timeoutId, popup, done, settles, inbox, handled>>

RequestBuild(e) ==
    /\ Build(e)
    /\ UNCHANGED aux

\* (mutant of RequestOpen: the missing handle is not checked)
RequestOpen_noBlockCheck(e, blocked) ==
    /\ pc[e] = "built"
    /\ popup' = [popup EXCEPT ![e] = IF blocked THEN "blocked" ELSE "open"]
    /\ pc' = [pc EXCEPT ![e] = "returned"]
    /\ result' = [result EXCEPT ![e] = done[e]]
    /\ EndOfBody(e)
    /\ UNCHANGED <<chan, state, nonce, timeoutId, done, settles, inbox, handled>>
    /\ UNCHANGED aux

\* popup = window.open(url, '_blank'); if (!popup) { chan.close(); throw }
\* return done
Open(e, blocked) ==
    /\ pc[e] = "built"
    /\ IF blocked
       THEN /\ popup' = [popup EXCEPT ![e] = "blocked"]
            /\ chan' = [chan EXCEPT ![e] = "closed"]
            /\ Throw(e, "Popup blocked")
       ELSE /\ popup' = [popup EXCEPT ![e] = "open"]
            /\ pc' = [pc EXCEPT ![e] = "returned"]
            /\ result' = [result EXCEPT ![e] = done[e]]
            /\ UNCHANGED chan
    /\ EndOfBody(e)
    /\ UNCHANGED <<state, nonce, timeoutId, done, settles, inbox, handled>>

RequestOpen(e, blocked) ==
    /\ Open(e, blocked)
    /\ UNCHANGED aux

\* ---------------------------------------------- events of the requester
\* resolve()/reject() of `done`; the promise request() returned follows it
\* once the body has returned it.
SettleDone(e, outcome) ==
    /\ done' = [done EXCEPT ![e] = Settle(done[e], outcome)]
    /\ settles' = [settles EXCEPT ![e] = @ + 1]
    /\ result' = [result EXCEPT ![e] =
            IF pc[e] = "returned" THEN Settle(done[e], outcome) ELSE @]

\* (variant of RunCleanup that releases the resources of every exchange)
RunCleanup_all(e, t) ==
    /\ timeoutId' = [x \in Exchanges |->
            cleanup(IF x = e THEN t ELSE timeoutId[x], chan[x], popup[x]).timeoutId]
    /\ chan' = [x \in Exchanges |->
            IF chan[x] = "none" THEN "none" ELSE "closed"]
    /\ popup' = [x \in Exchanges |-> cleanup(timeoutId[x], chan[x], popup[x]).popup]

\* cleanup() of exchange e: its own timer, channel and popup handle
RunCleanup(e, t) ==
    LET c == cleanup(t, chan[e], popup[e])
    IN  /\ timeoutId' = [timeoutId EXCEPT ![e] = c.timeoutId]
        /\ chan' = [chan EXCEPT ![e] = c.chan]
        /\ popup' = [popup EXCEPT ![e] = c.popup]

\* (mutant of TimerFire: the callback rejects without cleanup())
TimerFire_noCleanup(e) ==
    /\ timeoutId[e] = "armed"
    /\ pc[e] \in {"returned", "threw"}
    /\ ~Busy
    /\ timeoutId' = [timeoutId EXCEPT ![e] = "fired"]
    /\ SettleDone(e, Rejected("timeout", "Request timeout", Absent, Foreign))
    /\ UNCHANGED <<pc, opts, dcqlQuery, state, nonce, inbox, handled, chan, popup>>
    /\ UNCHANGED aux

\* (variant of TimerFire that tries again instead of giving up: the timer is
\* armed anew and the popup is opened once more)
TimerFire_retry(e) ==
    /\ timeoutId[e] = "armed"
    /\ pc[e] \in {"returned", "threw"}
    /\ ~Busy
    /\ popup' = [popup EXCEPT ![e] = "open"]
    /\ UNCHANGED <<pc, opts, dcqlQuery, state, nonce, inbox, handled, chan, timeoutId,
                   done, result, settles>>
    /\ UNCHANGED aux

\* The setTimeout callback: cleanup(); reject(new Error('Request timeout'))
TimerFire(e) ==
    /\ timeoutId[e] = "armed"
    /\ pc[e] \in {"returned", "threw"}
    /\ ~Busy
    /\ RunCleanup(e, "fired")
    /\ SettleDone(e, Rejected("timeout", "Request timeout", Absent, Foreign))
    /\ UNCHANGED <<pc, opts, dcqlQuery, state, nonce, inbox, handled>>
    /\ UNCHANGED aux

\* What chan.onmessage of exchange e does with msg
Handler(e, msg) ==
    IF opts[e].profile = "oid4vp"
    THEN onmessage(state[e], opts[e].shouldRehydrate, msg)
    ELSE onmessageSimple(state[e], msg)

\* A queued message event of an open channel is dispatched to chan.onmessage
Deliver(e) ==
    /\ inbox[e] # << >>
    /\ chan[e] = "open"
    /\ pc[e] \in {"returned", "threw"}
    /\ ~Busy
    /\ inbox' = [inbox EXCEPT ![e] = Tail(@)]
    /\ LET h == Handler(e, Head(inbox[e]))
       IN  /\ handled' = [handled EXCEPT ![e] =
                    Append(@, [msg |-> Head(inbox[e]), exit |-> h.exit])]
           /\ IF h.act = "settle"
              THEN /\ RunCleanup(e, timeoutId[e])
                   /\ SettleDone(e, h.outcome)
              ELSE IF h.act = "throw"
              THEN /\ RunCleanup(e, timeoutId[e])
                   /\ UNCHANGED <<done, settles, result>>
              ELSE UNCHANGED <<timeoutId, chan, popup, done, settles, result>>
    /\ UNCHANGED <<pc, opts, dcqlQuery, state, nonce>>
    /\ UNCHANGED aux

\* A message event queued for a channel that was closed meanwhile is dropped
DeliverClosed(e) ==
    /\ inbox[e] # << >>
    /\ chan[e] = "closed"
    /\ ~Busy
    /\ inbox' = [inbox EXCEPT ![e] = Tail(@)]
    /\ handled' = [handled EXCEPT ![e] =
            Append(@, [msg |-> Head(inbox[e]), exit |-> "dropped"])]
    /\ UNCHANGED <<pc, opts, dcqlQuery, state, nonce, chan, timeoutId, popup, done,
                   result, settles>>
    /\ UNCHANGED aux

\* ------------------------------------------------------ other contexts
\* The user, or the picker after launching the source, closes the popup
PopupClosed(e) ==
    /\ popup[e] = "open"
    /\ popup' = [popup EXCEPT ![e] = "closed"]
    /\ UNCHANGED <<pc, opts, dcqlQuery, state, nonce, chan, timeoutId, done, result,
                   settles, inbox, handled>>
    /\ UNCHANGED aux

\* bc.postMessage(msg) on channel 'shl-' + s: one message event is queued
\* for every open channel object of that name
Post(s, msg) ==
    /\ Posted(Exchanges) < MaxMsgs
    /\ \E e \in Exchanges : chan[e] = "open" /\ state[e] = s
    /\ inbox' = [e \in Exchanges |->
            IF chan[e] = "open" /\ state[e] = s THEN Append(inbox[e], msg) ELSE inbox[e]]

\* The message is queued where a channel listens, and lost otherwise
PostOrLose(s, msg) ==
    IF \E e \in Exchanges : chan[e] = "open" /\ state[e] = s
    THEN Post(s, msg)
    ELSE UNCHANGED inbox

\* The source that was launched for exchange e sends the browser back to the
\* requester's page, which runs the library the request was made with
ReturnPage(e, prof) ==
    /\ state[e] \in Known
    /\ opts[e].profile = prof
    /\ Posted(Exchanges) < MaxMsgs

\* The requester's side of maybeHandleReturn() of the OID4VP library running
\* in a return page: what the page posts on the relay.  (The page's own
\* document and window are followed in ReturnSpec.)
MaybeHandleReturn(hash, renderUI) ==
    /\ LET out == maybeHandleReturn(hash, renderUI)
       IN  IF out.published # << >>
           THEN PostOrLose(out.published[1].channel, out.published[1].msg)
           ELSE UNCHANGED inbox
    /\ UNCHANGED <<pc, opts, dcqlQuery, state, nonce, chan, timeoutId, popup, done,
                   result, settles, handled>>
    /\ UNCHANGED aux

\* maybeHandleReturn() of the simple profile in a page loaded with #res=...
MaybeHandleReturnSimple(res) ==
    /\ LET out == maybeHandleReturnSimple(res)
       IN  IF out.published # << >>
           THEN PostOrLose(out.published[1].channel, out.published[1].msg)
           ELSE UNCHANGED inbox
    /\ UNCHANGED <<pc, opts, dcqlQuery, state, nonce, chan, timeoutId, popup, done,
                   result, settles, handled>>
    /\ UNCHANGED aux

\* Any same-origin page posts on the channel of a state it has seen
RawPost(s, msg) ==
    /\ s \in Known
    /\ Post(s, msg)
    /\ UNCHANGED <<pc, opts, dcqlQuery, state, nonce, chan, timeoutId, popup, done,
                   result, settles, handled>>
    /\ UNCHANGED aux

Next ==
    \/ \E e \in Exchanges, in \in RequestInputs : RequestCall(e, in[1], in[2])
    \/ \E e \in Exchanges : RequestBuild(e)
    \/ \E e \in Exchanges, blocked \in BOOLEAN : RequestOpen(e, blocked)
    \/ \E e \in Exchanges : TimerFire(e)
    \/ \E e \in Exchanges : Deliver(e)
    \/ \E e \in Exchanges : DeliverClosed(e)
    \/ \E e \in Exchanges : PopupClosed(e)
    \/ \E e \in Exchanges : \E msg \in RawMessages(state[e], opts[e].profile) :
            RawPost(state[e], msg)

    \/ \E e \in Exchanges : \E hash \in ReturnHashes(state[e]), renderUI \in BOOLEAN :
            ReturnPage(e, "oid4vp") /\ MaybeHandleReturn(hash, renderUI)
    \/ \E e \in Exchanges : \E res \in ReturnRes(state[e]) :
            ReturnPage(e, "simple") /\ MaybeHandleReturnSimple(res)

Spec == Init /\ [][Next]_vars

\* ===================================================================
\* RehydrateSpec: rehydrateResponse on its own
\* ===================================================================
ItemIds == {"a", "b"}
Seqs(S, n) == UNION {[1..k -> S] : k \in 0..n}
\* Presentations of one id: artifact indices, the last one past every array
Presentations == Seqs(0..MaxLen, MaxLen)
VpTokens == UNION {[S -> Presentations] : S \in SUBSET ItemIds}
Wrappers == {[type |-> "fhir_resource", data |-> "X"], [type |-> "shl", data |-> "Y"]}
ArtifactLists == Seqs(Wrappers, MaxLen)
\* The ids of the query the response answers
QueryIdLists == {<<"a">>, <<"a", "b">>}

RehydrateInit ==
    /\ InitRequester
    /\ page = NoPage
    /\ flow = NoFlow
    /\ start = NoStart
    /\ codec = NoCodec
    /\ calc \in {[ids |-> q, state |-> st, vp_token |-> vp, smart_artifacts |-> arts,
                  called |-> FALSE, credentials |-> << >>, returned |-> << >>] :
                    q \in QueryIdLists, st \in 1..MaxReq, vp \in VpTokens,
                    arts \in ArtifactLists}

\* (variant of RehydratedResponse that leaves out of credentials the ids
\* that have no presentation)
RehydratedResponse_skipsEmpty(st, vp, arts) ==
    [state |-> st, vp_token |-> vp, smart_artifacts |-> arts,
     credentials |-> [id \in {x \in DOMAIN vp : vp[x] # << >>} |->
                        rehydrateCredentials(vp, arts)[id]]]

\* The object rehydrateResponse returns: { ...response, credentials }
RehydratedResponse(st, vp, arts) ==
    [state |-> st, vp_token |-> vp, smart_artifacts |-> arts,
     credentials |-> rehydrateCredentials(vp, arts)]

\* rehydrateResponse(response) is called with the response under observation
Rehydrate ==
    /\ ~calc.called
    /\ calc' = [calc EXCEPT !.called = TRUE,
                    !.credentials = rehydrateCredentials(calc.vp_token, calc.smart_artifacts),
                    !.returned = << RehydratedResponse(calc.state, calc.vp_token,
                                                       calc.smart_artifacts) >>]
    /\ UNCHANGED <<reqvars, page, flow, start, codec>>

RehydrateNext == Rehydrate

RehydrateSpec == RehydrateInit /\ [][RehydrateNext]_vars

\* ===================================================================
\* ReturnSpec: requests of the OID4VP library and the pages loaded at the
\* requester's URL, each running maybeHandleReturn() on its fragment
\* ===================================================================
\* key=value in a fragment; a parameter that is Absent is left out
Param(k, v) == IF v = Absent THEN << >> ELSE << <<k, v>> >>
StateParam(st) == IF st = NoState THEN << >> ELSE << <<"state", st>> >>

\* The fragments a page at the requester's URL is loaded with, for a state st
\* (NoState: without a state parameter): every combination of the response
\* parameters missing, empty, well-formed, or not JSON
PageHashes(st) ==
    { Param("error", er) \o Param("error_description", d) \o Param("vp_token", vp)
        \o Param("smart_artifacts", a) \o StateParam(st) :
            er \in {Absent, "", "access_denied"},
            d \in {Absent, "", "User declined"},
            vp \in {Absent, "V1", "V2", "notjson"},
            a \in {Absent, "A1", "notjson"} }

\* opts.renderUI as the page passes it
RenderOptions == {Absent, "true", "false"}

\* (variant of RenderUI in which the notice has to be asked for)
RenderUI_optIn(o) == o = "true"
\* const renderUI = opts.renderUI !== false
RenderUI(o) == o # "false"

ReturnInputs ==
    {<<GoodQuery, Opts("oid4vp", Base(<<"u", "/">>), rh, "none")>> : rh \in {Absent, "false"}}

\* maybeHandleReturn({ renderUI: o }) in a page whose fragment is `hash`
PageLoad(hash, o) ==
    LET out == maybeHandleReturn(hash, RenderUI(o))
    IN  /\ page' = [loaded |-> TRUE, hash |-> hash, renderUI |-> o,
                    returned |-> out.returned, published |-> out.published,
                    notice |-> out.notice, closeAttempted |-> out.closeAttempted,
                    effects |-> out.effects]
        /\ IF out.published # << >>
           THEN PostOrLose(out.published[1].channel, out.published[1].msg)
           ELSE UNCHANGED inbox

\* A page is loaded at the requester's URL with this fragment and calls
\* maybeHandleReturn({ renderUI: o })
LoadPage(hash, o) ==
    /\ Posted(Exchanges) < MaxMsgs
    /\ PageLoad(hash, o)
    /\ UNCHANGED <<pc, opts, dcqlQuery, state, nonce, chan, timeoutId, popup, done,
                   result, settles, handled, flow, calc, start, codec>>

ReturnNext ==
    \/ \E e \in Exchanges, in \in ReturnInputs : RequestCall(e, in[1], in[2])
    \/ \E e \in Exchanges : RequestBuild(e)
    \/ \E e \in Exchanges, blocked \in BOOLEAN : RequestOpen(e, blocked)
    \/ \E e \in Exchanges : TimerFire(e)
    \/ \E e \in Exchanges : Deliver(e)
    \/ \E e \in Exchanges : DeliverClosed(e)
    \/ \E st \in Known :
            \E hash \in ReturnHashes(st), o \in RenderOptions : LoadPage(hash, o)

ReturnSpec == Init /\ [][ReturnNext]_vars

\* ===================================================================
\* RerenderSpec: ReturnSpec, and the return page calls maybeHandleReturn()
\* once more (the effect that calls it runs again)
\* ===================================================================
\* maybeHandleReturn() is called a second time in the page that has handled
\* a response: same location.hash, same options
HandleReturnAgain ==
    /\ page.loaded /\ Len(page.published) = 1
    /\ Posted(Exchanges) < MaxMsgs
    /\ LET out == maybeHandleReturn(page.hash, RenderUI(page.renderUI))
       IN  /\ page' = [page EXCEPT !.returned = out.returned,
                                   !.published = @ \o out.published,
                                   !.notice = out.notice,
                                   !.closeAttempted = @ \/ out.closeAttempted,
                                   !.effects = @ \o out.effects]
           /\ IF out.published # << >>
              THEN PostOrLose(out.published[1].channel, out.published[1].msg)
              ELSE UNCHANGED inbox
    /\ UNCHANGED <<pc, opts, dcqlQuery, state, nonce, chan, timeoutId, popup, done,
                   result, settles, handled, flow, calc, start, codec>>

RerenderNext ==
    \/ ReturnNext
    \/ HandleReturnAgain

RerenderSpec == Init /\ [][RerenderNext]_vars

\* ===================================================================
\* SimpleReturnSpec: requests of the simple profile and the pages loaded at
\* the requester's URL with a res parameter
\* ===================================================================
SimpleInputs == {<<q, Opts("simple", Base(<<"u">>), Absent, "none")>> : q \in {GoodQuery, DupQuery}}

\* A page is loaded at the requester's URL with #res=<res> (or without res)
\* and calls maybeHandleReturn() of the simple profile
LoadPageSimple(res) ==
    /\ Posted(Exchanges) < MaxMsgs
    /\ LET out == maybeHandleReturnSimple(res)
       IN  /\ page' = [loaded |-> TRUE,
                       hash |-> IF res = << >> THEN << >> ELSE << <<"res", res>> >>,
                       renderUI |-> Absent,
                       returned |-> out.returned, published |-> out.published,
                       notice |-> out.notice, closeAttempted |-> out.closeAttempted,
                    effects |-> out.effects]
           /\ IF out.published # << >>
              THEN PostOrLose(out.published[1].channel, out.published[1].msg)
              ELSE UNCHANGED inbox
    /\ UNCHANGED <<pc, opts, dcqlQuery, state, nonce, chan, timeoutId, popup, done,
                   result, settles, handled, flow, calc, start, codec>>

SimpleReturnNext ==
    \/ \E e \in Exchanges, in \in SimpleInputs : RequestCall(e, in[1], in[2])
    \/ \E e \in Exchanges : RequestBuild(e)
    \/ \E e \in Exchanges, blocked \in BOOLEAN : RequestOpen(e, blocked)
    \/ \E e \in Exchanges : TimerFire(e)
    \/ \E e \in Exchanges : Deliver(e)
    \/ \E e \in Exchanges : DeliverClosed(e)
    \/ \E st \in Known \cup {Foreign} : \E res \in ReturnRes(st) : LoadPageSimple(res)

SimpleReturnSpec == Init /\ [][SimpleReturnNext]_vars

\* ===================================================================
\* PageSpec: maybeHandleReturn() on its own, in one page loaded at the
\* requester's URL with any fragment
\* ===================================================================
PageNext ==
    /\ ~page.loaded
    /\ \E st \in Tokens \cup {Foreign, NoState} :
            \E hash \in PageHashes(st), o \in RenderOptions : LoadPage(hash, o)

PageSpec == Init /\ [][PageNext]_vars

\* ===================================================================
\* PrecedenceSpec: responses that carry an error next to the success
\* parameters, as a return fragment and as a message on the relay
\* ===================================================================
\* Fragments for state s with vp_token and smart_artifacts and, in all but
\* the last, an error
ConflictingHashes(s) ==
    { Param("error", er) \o Param("error_description", d) \o Param("vp_token", "V1")
        \o Param("smart_artifacts", "A1") \o StateParam(s) :
            er \in {"access_denied", "invalid_request"},
            d \in {Absent, "User declined"} }
    \cup { << <<"state", s>>, <<"vp_token", "V2">>, <<"smart_artifacts", "A1">>,
              <<"error", "access_denied">> >>,
           << <<"vp_token", "V1">>, <<"smart_artifacts", "A1">>, <<"state", s>> >> }

\* Messages with state s that have vp_token and smart_artifacts and, in all
\* but the last, an error
ConflictingMessages(s) ==
    { Msg(s, "invalid_request", Absent, "V1", "A1", << >>),
      Msg(s, "access_denied", "User declined", "V2", "A1", << >>),
      Msg(s, Absent, Absent, "V1", "A1", << >>) }

PrecedenceNext ==
    \/ \E e \in Exchanges, in \in ReturnInputs : RequestCall(e, in[1], in[2])
    \/ \E e \in Exchanges : RequestBuild(e)
    \/ \E e \in Exchanges, blocked \in BOOLEAN : RequestOpen(e, blocked)
    \/ \E e \in Exchanges : TimerFire(e)
    \/ \E e \in Exchanges : Deliver(e)
    \/ \E e \in Exchanges : DeliverClosed(e)
    \/ \E st \in Known :
            \E hash \in ConflictingHashes(st), o \in RenderOptions : LoadPage(hash, o)
    \/ \E e \in Exchanges : \E msg \in ConflictingMessages(state[e]) :
            RawPost(state[e], msg)

PrecedenceSpec == Init /\ [][PrecedenceNext]_vars

\* ===================================================================
\* BroadcastSpec: a same-origin page calls the exported broadcastResponse
\* itself, with any data object
\* ===================================================================
\* The data objects passed: an error or a response, without a state field
\* or with the state field t
DataObjects(t) ==
    LET plain == { Data("access_denied", Absent, Absent, Absent),
                   Data(Absent, Absent, "V1", "A1") }
    IN  plain \cup { [d EXCEPT !.hasState = TRUE, !.state = t] : d \in plain }

\* broadcastResponse(s, d) in the page under observation: the message
\* { state, ...d } is posted on 'shl-' + s and the handle is closed
BroadcastResponse(s, d) ==
    /\ Posted(Exchanges) < MaxMsgs
    /\ page' = [NoPage EXCEPT !.loaded = TRUE,
                              !.published = << [channel |-> s,
                                                msg |-> broadcastMessage(s, d)] >>,
                              !.effects = BroadcastEffects]
    /\ PostOrLose(s, broadcastMessage(s, d))
    /\ UNCHANGED <<pc, opts, dcqlQuery, state, nonce, chan, timeoutId, popup, done,
                   result, settles, handled, flow, calc, start, codec>>

BroadcastNext ==
    \/ \E e \in Exchanges, in \in ReturnInputs : RequestCall(e, in[1], in[2])
    \/ \E e \in Exchanges : RequestBuild(e)
    \/ \E e \in Exchanges, blocked \in BOOLEAN : RequestOpen(e, blocked)
    \/ \E e \in Exchanges : TimerFire(e)
    \/ \E e \in Exchanges : Deliver(e)
    \/ \E e \in Exchanges : DeliverClosed(e)
    \/ \E s \in Known : \E t \in Known \cup {Foreign} : \E d \in DataObjects(t) :
            BroadcastResponse(s, d)

BroadcastSpec == Init /\ [][BroadcastNext]_vars

\* ===================================================================
\* ClosingSpec: one page loaded at the requester's URL that runs
\* maybeHandleReturn() of either library, with any fragment
\* ===================================================================
ClosingNext ==
    \/ /\ ~page.loaded
       /\ \E st \in Tokens \cup {Foreign, NoState} :
            \E hash \in PageHashes(st), o \in RenderOptions : LoadPage(hash, o)
    \/ /\ ~page.loaded
       /\ \E st \in Tokens \cup {Foreign, NoState} :
            \E res \in ReturnRes(st) : LoadPageSimple(res)

ClosingSpec == Init /\ [][ClosingNext]_vars

\* ===================================================================
\* FlowSpec: the popup from window.open in request() through the picker
\* (demo/checkin App.tsx) and the source back to the requester's URL
\* ===================================================================
Contexts == {"requester", "picker", "source"}

\* The request parameters of a URL's query string (present: there are any)
NoParams == [present |-> FALSE, client_id |-> Absent, state |-> NoState,
             nonce |-> NoState, dcql_query |-> NullQuery]
Params(c, s, n, q) ==
    [present |-> TRUE, client_id |-> c, state |-> s, nonce |-> n, dcql_query |-> q]
\* The request envelope of the simple profile (#req=...)
NoEnvelope == [present |-> FALSE, state |-> NoState, returnUrl |-> Absent,
               digital |-> NullQuery]
\* A URL: the context that serves it, its query string, and its fragment
\* (either a request envelope or the key=value pairs of a response)
Url(to, query, req, hash) == [to |-> to, query |-> query, req |-> req, hash |-> hash]

QueryKeys(url) ==
    IF url.query.present
    THEN {"client_id", "response_type", "response_mode", "nonce", "state", "dcql_query"}
    ELSE {}
FragmentKeys(url) ==
    (IF url.req.present THEN {"req"} ELSE {}) \cup {url.hash[i][1] : i \in 1..Len(url.hash)}

\* request(): the URL it passes to window.open.  client_id is
\* 'redirect_uri:' + the requester's own URL without its fragment.
\* OID4VP library: `${checkinBase}/?${params}`; simple profile:
\* `${checkinBase}/#req=${reqEnvelope}` with returnUrl the requester's URL
PopupUrl(prof, s, n, q) ==
    IF prof = "oid4vp"
    THEN Url("picker", Params("requester", s, n, q), NoEnvelope, << >>)
    ELSE Url("picker", NoParams,
             [present |-> TRUE, state |-> s, returnUrl |-> "requester", digital |-> q],
             << >>)

\* A dcql_query parameter that is missing or empty, and one whose text is no
\* JSON
MissingParam == Query(FALSE, FALSE, <<"missing">>)
NotJson == Query(FALSE, FALSE, <<"notjson">>)

\* (variant of parseRequest that does not ask for a nonce)
parseRequest_noNonceCheck(url) ==
    IF \/ ~url.query.present
       \/ ~Truthy(url.query.client_id)
       \/ url.query.state = NoState
    THEN << >>
    ELSE IF url.query.dcql_query = NotJson THEN << >>
    ELSE << [url.query EXCEPT !.dcql_query = IF @ = MissingParam THEN NoArrayQuery ELSE @] >>

\* parseRequest() of the picker: reads window.location.search only (the
\* URLs here have no protocol parameter, so the protocol is the default);
\* without client_id, state or nonce it yields an error; dcql_query is
\* JSON.parse(urlParams.get('dcql_query') || '{}'), and an error when that
\* throws
parseRequest(url) ==
    IF \/ ~url.query.present
       \/ ~Truthy(url.query.client_id)
       \/ url.query.state = NoState
       \/ url.query.nonce = NoState
    THEN << >>
    ELSE IF url.query.dcql_query = NotJson THEN << >>
    ELSE << [url.query EXCEPT !.dcql_query = IF @ = MissingParam THEN NoArrayQuery ELSE @] >>

\* (variant of LaunchUrl in which the picker names itself as the client)
LaunchUrl_ownClientId(req) ==
    Url("source", Params("picker", req.state, req.nonce, req.dcql_query),
        NoEnvelope, << >>)
\* AppCard.handleClick: app.launchBase + '?' + appParams
LaunchUrl(req) ==
    Url("source", Params(req.client_id, req.state, req.nonce, req.dcql_query),
        NoEnvelope, << >>)

\* The responses a source builds for a request with state s
SourceResponses(s) == {h \in ReturnHashes(s) : Has(h, "state")}

\* A window is navigated to url: the context serving it receives the URL
Navigate(by, url) ==
    [flow EXCEPT !.navs = Append(@, [by |-> by, url |-> url]),
                 !.saw[url.to] = @ \cup QueryKeys(url) \cup FragmentKeys(url)]

\* request() opens the popup (window.open(url, '_blank'))
OpenPicker(prof, s, n, q) ==
    /\ flow.stage = "none"
    /\ flow' = [Navigate("requester", PopupUrl(prof, s, n, q)) EXCEPT !.stage = "opening"]
    /\ UNCHANGED <<reqvars, page, calc, start, codec>>

\* The picker's App renders: parseRequest()
PickerLoad ==
    /\ flow.stage = "opening"
    /\ LET parsed == parseRequest(flow.navs[Len(flow.navs)].url)
       IN  flow' = [flow EXCEPT !.stage = IF parsed = << >> THEN "pickerError" ELSE "picker",
                                !.req = parsed, !.pickerOpen = TRUE]
    /\ UNCHANGED <<reqvars, page, calc, start, codec>>

\* AppCard.handleClick, what the picker does to windows, in program order:
\* window.open(launchUrl, '_blank'), then location.href = launchUrl when no
\* window came back, window.close() otherwise
ClickEffects(blocked) ==
    IF blocked THEN <<"open", "navigate">> ELSE <<"open", "close">>

\* AppCard.handleClick: a disabled card does nothing; otherwise the launch URL
\* is opened in a new window and the picker closes itself, or, when that
\* window is blocked, the picker's own window is navigated to it
handleClick(app, blocked) ==
    /\ flow.stage = "picker"
    /\ app = "flexpa"
    /\ flow' = [Navigate("picker", LaunchUrl(flow.req[1])) EXCEPT
                    !.stage = "source", !.launch = << LaunchUrl(flow.req[1]).query >>,
                    !.sourceWindow = IF blocked THEN "same" ELSE "new",
                    !.pickerOpen = FALSE,
                    !.pickerDid = ClickEffects(blocked)]
    /\ UNCHANGED <<reqvars, page, calc, start, codec>>

\* The source answers: it redirects its window to the redirect_uri named by
\* client_id, with the response and the request's state in the fragment
SourceReturn(hash) ==
    /\ flow.stage = "source"
    /\ flow' = [Navigate("source", Url(flow.launch[1].client_id, NoParams, NoEnvelope, hash))
                    EXCEPT !.stage = "returned"]
    /\ UNCHANGED <<reqvars, page, calc, start, codec>>

\* The page at the requester's URL loads and calls maybeHandleReturn()
Landing(o) ==
    /\ flow.stage = "returned"
    /\ flow.navs[Len(flow.navs)].url.to = "requester"
    /\ PageLoad(flow.navs[Len(flow.navs)].url.hash, o)
    /\ flow' = [flow EXCEPT !.stage = "done"]
    /\ UNCHANGED <<pc, opts, dcqlQuery, state, nonce, chan, timeoutId, popup, done,
                   result, settles, handled, calc, start, codec>>

FlowNext ==
    \/ \E prof \in {"oid4vp", "simple"}, s \in Tokens, n \in Tokens,
          q \in {GoodQuery, EmptyQuery, DupQuery} :
            s # n /\ OpenPicker(prof, s, n, q)
    \/ PickerLoad
    \/ \E app \in {"flexpa", "bwell", "premera"}, blocked \in BOOLEAN : handleClick(app, blocked)
    \/ /\ flow.stage = "source"
       /\ \E hash \in SourceResponses(flow.launch[1].state) : SourceReturn(hash)
    \/ \E o \in RenderOptions : Landing(o)

FlowSpec == Init /\ [][FlowNext]_vars

\* ===================================================================
\* PickerSpec: the picker (demo/checkin App.tsx) opened at any URL, and a
\* click on one of its cards
\* ===================================================================
\* The URLs the picker is opened at: each of client_id, state and nonce
\* missing or there (client_id also empty), dcql_query missing, no JSON, or
\* the text of a query
PickerUrls ==
    { Url("picker", Params(c, st, n, q), NoEnvelope, << >>) :
        c \in {Absent, "", "requester"},
        st \in {NoState} \cup (1..MaxReq),
        n \in {NoState} \cup (1..MaxReq),
        q \in {MissingParam, NotJson, NullQuery, EmptyQuery, GoodQuery} }

\* A window is opened at the picker's URL
OpenPickerAt(url) ==
    /\ flow.stage = "none"
    /\ flow' = [Navigate("requester", url) EXCEPT !.stage = "opening"]
    /\ UNCHANGED <<reqvars, page, calc, start, codec>>

PickerNext ==
    \/ \E url \in PickerUrls : OpenPickerAt(url)
    \/ PickerLoad
    \/ \E app \in {"flexpa", "bwell", "premera"}, blocked \in BOOLEAN : handleClick(app, blocked)

PickerSpec == Init /\ [][PickerNext]_vars

\* ===================================================================
\* StartSpec: request() of either library with the onRequestStart option,
\* what the callback is given and the URL window.open is given
\* ===================================================================
\* (variant of RequestStartInfo that reports the state in place of the nonce)
RequestStartInfo_nonceIsState(c, s, n, q) == Params(c, s, s, q)

\* The object opts.onRequestStart is called with: client_id, response_type,
\* response_mode, state, nonce, dcql_query
RequestStartInfo(c, s, n, q) == Params(c, s, n, q)

StartInputs ==
    {<<q, Opts(prof, Base(<<"u">>), Absent, cb)>> :
        q \in {GoodQuery, DupQuery}, prof \in {"oid4vp", "simple"},
        cb \in {"none", "returns", "throws"}}
    \cup {<<NullQuery, Opts("oid4vp", Base(<<"u">>), Absent, "returns")>>}

\* RequestBuild, with the callback's invocation recorded: its argument and
\* what the channel, the timer and the popup were at that moment
RequestBuildStart(e) ==
    /\ Build(e)
    /\ start' = [start EXCEPT ![e].calls =
            IF CallsBack(opts[e])
            THEN Append(@, [args |-> RequestStartInfo("requester", state[e], nonce[e],
                                                     dcqlQuery[e]),
                            chan |-> chan[e], timeoutId |-> timeoutId[e],
                            popup |-> popup[e]])
            ELSE @]
    /\ UNCHANGED <<page, flow, calc, codec>>

\* RequestOpen, with the URL given to window.open recorded
RequestOpenStart(e, blocked) ==
    /\ Open(e, blocked)
    /\ start' = [start EXCEPT ![e].url =
            << PopupUrl(opts[e].profile, state[e], nonce[e], dcqlQuery[e]) >>]
    /\ UNCHANGED <<page, flow, calc, codec>>

StartNext ==
    \/ \E e \in Exchanges, in \in StartInputs : RequestCall(e, in[1], in[2])
    \/ \E e \in Exchanges : RequestBuildStart(e)
    \/ \E e \in Exchanges, blocked \in BOOLEAN : RequestOpenStart(e, blocked)
    \/ \E e \in Exchanges : TimerFire(e)
    \/ \E e \in Exchanges : PopupClosed(e)

StartSpec == Init /\ [][StartNext]_vars

\* ===================================================================
\* CodecSpec: encJ and decJ of the simple profile on one envelope.
\* Texts are sequences of code points, buffers sequences of bytes, base64
\* texts sequences of symbols: 0..63 the letters of the base64 alphabet in
\* order (62 is '+', 63 is '/'), then '=', '-' and '_'.
\* ===================================================================
PadSym == 64
MinusSym == 65
UnderscoreSym == 66
\* What may stand unescaped in a URL fragment parameter: A-Z a-z 0-9 - _
UrlSafe == (0..61) \cup {MinusSym, UnderscoreSym}

\* The code points of the envelopes' texts: 'a', '>', '?', U+00E9
Chars == {97, 62, 63, 233}
\* U+FFFD, which TextDecoder puts for bytes that are no UTF-8
Replacement == 65533

\* Envelopes: request ({v, state, returnUrl, digital}) and response ({v, state,
\* payload}), each with a state and a text content
Envelope(kind, st, content) == [kind |-> kind, state |-> st, content |-> content]
Envelopes ==
    {Envelope(k, st, c) : k \in {"request", "response"}, st \in Tokens,
                          c \in Seqs(Chars, MaxLen)}

\* JSON.stringify(o): the envelope's JSON text, here the letter of its kind
\* ('q' or 's'), the digit of its state, and its content
KindChar(kind) == IF kind = "request" THEN 113 ELSE 115
stringify(env) == <<KindChar(env.kind), 48 + env.state>> \o env.content

\* JSON.parse(text): << envelope >>, or << >> when it throws SyntaxError
parse(text) ==
    IF /\ Len(text) >= 2 /\ text[1] \in {113, 115} /\ text[2] - 48 \in Tokens
       /\ \A i \in 3..Len(text) : text[i] \in Chars
    THEN << Envelope(IF text[1] = 113 THEN "request" ELSE "response", text[2] - 48,
                     SubSeq(text, 3, Len(text))) >>
    ELSE << >>

\* TextEncoder.encode: UTF-8, one byte below U+0080, two below U+0800
RECURSIVE encode(_)
encode(text) ==
    IF text = << >> THEN << >>
    ELSE (IF Head(text) < 128 THEN << Head(text) >>
          ELSE << 192 + (Head(text) \div 64), 128 + (Head(text) % 64) >>)
         \o encode(Tail(text))

\* TextDecoder.decode: UTF-8, U+FFFD for a byte that starts no valid sequence
RECURSIVE decode(_)
decode(bytes) ==
    IF bytes = << >> THEN << >>
    ELSE IF Head(bytes) < 128 THEN << Head(bytes) >> \o decode(Tail(bytes))
    ELSE IF /\ Head(bytes) \in 194..223 /\ Len(bytes) >= 2 /\ bytes[2] \in 128..191
         THEN << (Head(bytes) - 192) * 64 + (bytes[2] - 128) >>
                 \o decode(Tail(Tail(bytes)))
    ELSE << Replacement >> \o decode(Tail(bytes))

\* btoa(bin): three bytes give four symbols; one or two bytes left over give
\* two or three symbols and '=' up to four
RECURSIVE btoa(_)
btoa(bytes) ==
    IF bytes = << >> THEN << >>
    ELSE IF Len(bytes) = 1 THEN
        << bytes[1] \div 4, (bytes[1] % 4) * 16, PadSym, PadSym >>
    ELSE IF Len(bytes) = 2 THEN
        LET n == bytes[1] * 256 + bytes[2]
        IN  << n \div 1024, (n \div 16) % 64, (n % 16) * 4, PadSym >>
    ELSE
        LET n == bytes[1] * 65536 + bytes[2] * 256 + bytes[3]
        IN  << n \div 262144, (n \div 4096) % 64, (n \div 64) % 64, n % 64 >>
            \o btoa(SubSeq(bytes, 4, Len(bytes)))

\* .replace(/=+$/, '')
RECURSIVE StripPad(_)
StripPad(t) ==
    IF t # << >> /\ t[Len(t)] = PadSym THEN StripPad(SubSeq(t, 1, Len(t) - 1)) ELSE t

\* (variant of b64u that leaves '+' in the text)
b64u_keepsPlus(bytes) ==
    LET t == btoa(bytes)
    IN  StripPad([i \in 1..Len(t) |-> IF t[i] = 63 THEN UnderscoreSym ELSE t[i]])

\* b64u(buf): btoa, '+' to '-', '/' to '_', trailing '=' removed
b64u(bytes) ==
    LET t == btoa(bytes)
    IN  StripPad([i \in 1..Len(t) |->
            IF t[i] = 62 THEN MinusSym ELSE IF t[i] = 63 THEN UnderscoreSym ELSE t[i]])

\* atob(b64): << bytes >>, or << >> when it throws (a length that is no
\* multiple of four, a symbol outside the alphabet, '=' elsewhere than at
\* the end)
RECURSIVE atobGroups(_)
atobGroups(t) ==
    IF t = << >> THEN << >>
    ELSE IF t[3] = PadSym THEN << (t[1] * 64 + t[2]) \div 16 >>
    ELSE IF t[4] = PadSym THEN
        LET n == t[1] * 4096 + t[2] * 64 + t[3]
        IN  << n \div 1024, (n \div 4) % 256 >>
    ELSE
        LET n == t[1] * 262144 + t[2] * 4096 + t[3] * 64 + t[4]
        IN  << n \div 65536, (n \div 256) % 256, n % 256 >> \o atobGroups(SubSeq(t, 5, Len(t)))
atob(t) ==
    IF /\ Len(t) % 4 = 0
       /\ \A i \in 1..Len(t) :
             \/ t[i] \in 0..63
             \/ /\ t[i] = PadSym /\ i >= Len(t) - 1
                /\ \A j \in (i + 1)..Len(t) : t[j] = PadSym
    THEN << atobGroups(t) >>
    ELSE << >>

\* ub64(s): '=' added up to a multiple of four, '-' to '+', '_' to '/', atob
ub64(t) ==
    LET pad == IF Len(t) % 4 # 0 THEN [i \in 1..(4 - (Len(t) % 4)) |-> PadSym] ELSE << >>
        b64 == [i \in 1..Len(t) |->
                    IF t[i] = MinusSym THEN 62 ELSE IF t[i] = UnderscoreSym THEN 63 ELSE t[i]]
                \o pad
    IN  atob(b64)

\* encJ(o) = b64u(te.encode(JSON.stringify(o)))
encJ(env) == b64u(encode(stringify(env)))
\* decJ(s) = JSON.parse(td.decode(ub64(s))): << envelope >>, or << >> when
\* atob or JSON.parse throws
decJ(t) == IF ub64(t) = << >> THEN << >> ELSE parse(decode(ub64(t)[1]))

\* Texts decJ is given that no encJ made: a single symbol, '=' in front, and
\* the base64 text of three zero bytes
ForeignTexts == { << 7 >>, << PadSym, 7, 7, 7 >>, << 0, 0, 0, 0 >> }

CodecInit ==
    /\ InitRequester
    /\ page = NoPage
    /\ flow = NoFlow
    /\ calc = NoCalc
    /\ start = NoStart
    /\ codec \in {[NoCodec EXCEPT !.env = << e >>] : e \in Envelopes}

\* encJ(envelope)
Encode ==
    /\ codec.stage = "none"
    /\ codec' = [codec EXCEPT !.stage = "encoded", !.text = encJ(codec.env[1])]
    /\ UNCHANGED <<reqvars, page, flow, calc, start>>

\* decJ(text) of the text encJ made
Decode ==
    /\ codec.stage = "encoded"
    /\ codec' = [codec EXCEPT !.stage = "decoded", !.decoded = decJ(codec.text)]
    /\ UNCHANGED <<reqvars, page, flow, calc, start>>

\* decJ(text) of a text that came from elsewhere
DecodeForeign(t) ==
    /\ codec.stage = "none"
    /\ codec' = [codec EXCEPT !.stage = "foreign", !.text = t, !.decoded = decJ(t)]
    /\ UNCHANGED <<reqvars, page, flow, calc, start>>

CodecNext ==
    \/ Encode
    \/ Decode
    \/ \E t \in ForeignTexts : DecodeForeign(t)

CodecSpec == CodecInit /\ [][CodecNext]_vars

\* ===================================================================
\* Properties
\* ===================================================================
Opened(e) == popup[e] \in {"open", "closed"}
Handled(e) == 1..Len(handled[e])
\* The message events of exchange e whose handler settled `done`
SettlingMsgs(e) == {i \in Handled(e) : handled[e][i].exit = "settled"}
\* A message of the OID4VP shape that is complete: an error, or both success fields
WellFormed(m) ==
    ~m.nul /\ (Truthy(m.error) \/ (Truthy(m.vp_token) /\ Truthy(m.smart_artifacts)))

\* C1 -- Correlation integrity: a relay message whose embedded state differs
\* from the state of the exchange never resolves and never rejects it, whatever
\* else it carries: every message that settled `done` carried the exchange's
\* state, and `done` is settled only by such a message or by the timer.
C1_CorrelationIntegrity ==
    \A e \in Exchanges :
        /\ \A i \in Handled(e) :
              (~handled[e][i].msg.nul /\ handled[e][i].msg.state # state[e])
                  => handled[e][i].exit \in {"state", "dropped"}
        /\ (done[e].status # "pending" /\ done[e].kind # "timeout")
              => \E i \in SettlingMsgs(e) : handled[e][i].msg.state = state[e]

\* A message with a foreign state and both error and success fields was
\* handled by a listening exchange, which is still pending
C1_Witness ==
    \E e \in Exchanges : \E i \in Handled(e) :
        /\ handled[e][i].exit = "state"
        /\ handled[e][i].msg.state # state[e]
        /\ Truthy(handled[e][i].msg.error) /\ Truthy(handled[e][i].msg.vp_token)
        /\ done[e].status = "pending" /\ result[e].status = "pending"
        /\ chan[e] = "open" /\ timeoutId[e] = "armed"

\* C2 -- At-most-one resolution: after the message that settled the exchange,
\* every later message event of the channel is dropped; at most one message
\* settles; and the value request() resolves with is built from the first
\* matching well-formed message, also when a differing success message follows.
C2_AtMostOneResolution ==
    \A e \in Exchanges :
        /\ Cardinality(SettlingMsgs(e)) <= 1
        /\ \A i, j \in Handled(e) :
              (i < j /\ handled[e][i].exit = "settled") => handled[e][j].exit = "dropped"
        /\ \A i \in SettlingMsgs(e) :
              /\ settles[e] = 1
              /\ \A j \in 1..(i - 1) :
                    ~(WellFormed(handled[e][j].msg) /\ handled[e][j].msg.state = state[e]
                        /\ opts[e].profile = "oid4vp")
              /\ (opts[e].profile = "oid4vp" /\ ~Truthy(handled[e][i].msg.error))
                    => /\ result[e].status = "resolved"
                       /\ result[e].vp_token = handled[e][i].msg.vp_token
                       /\ result[e].smart_artifacts = handled[e][i].msg.smart_artifacts

\* Two differing success messages with the matching state were queued in
\* sequence; the first resolved the exchange, the second was dropped
C2_Witness ==
    \E e \in Exchanges :
        /\ Len(handled[e]) = 2
        /\ handled[e][1].exit = "settled" /\ handled[e][2].exit = "dropped"
        /\ handled[e][1].msg.state = state[e] /\ handled[e][2].msg.state = state[e]
        /\ handled[e][1].msg.vp_token = "V1" /\ handled[e][2].msg.vp_token = "V2"
        /\ Truthy(handled[e][2].msg.smart_artifacts) /\ ~Truthy(handled[e][2].msg.error)
        /\ result[e].status = "resolved" /\ result[e].vp_token = "V1"

\* C3 -- Subscribe before open: the step that calls window.open finds the
\* channel 'shl-' + state already open, and from the moment another context
\* knows the state until cleanup() runs (the exchange settles, or the handler
\* of a matching message throws after its cleanup) the requester is listening.
C3_SubscribeBeforeOpen ==
    [][\A e \in Exchanges :
          /\ (popup[e] = "none" /\ popup'[e] # "none") => chan[e] = "open"
          /\ (/\ state'[e] \in Known' /\ done'[e].status = "pending"
              /\ \A i \in 1..Len(handled'[e]) : handled'[e][i].exit # "threw")
                => chan'[e] = "open"
      ]_vars

\* The popup is open and a response that was posted at once is queued for the
\* listening channel
C3_Witness ==
    \E e \in Exchanges :
        /\ pc[e] = "returned" /\ popup[e] = "open" /\ chan[e] = "open"
        /\ handled[e] = << >> /\ inbox[e] # << >>
        /\ inbox[e][1].state = state[e]

\* C4 -- Timeout: the timeout failure is produced by the timer callback and by
\* nothing else, once, only while no message has settled the exchange, and
\* when it fires the channel is closed; an exchange whose popup opened is then
\* rejected with the timeout failure.
C4_Timeout ==
    \A e \in Exchanges :
        /\ (done[e].kind = "timeout") <=> (timeoutId[e] = "fired")
        /\ timeoutId[e] = "fired" =>
              /\ done[e].status = "rejected" /\ settles[e] = 1
              /\ SettlingMsgs(e) = {}
              /\ chan[e] = "closed"
              /\ Opened(e) => result[e] = done[e]
        /\ SettlingMsgs(e) # {} => timeoutId[e] = "cleared"

\* The popup opened, only a non-matching message arrived, and the timer fired
C4_Witness ==
    \E e \in Exchanges :
        /\ Opened(e) /\ timeoutId[e] = "fired"
        /\ Len(handled[e]) = 1 /\ handled[e][1].exit = "state"
        /\ result[e].status = "rejected" /\ result[e].kind = "timeout"
        /\ chan[e] = "closed"

\* C5 -- Cleanup on every exit path: when request()'s promise is settled by a
\* success message, an error message (or, simple profile, a decode error), the
\* timeout, or the blocked popup, the channel is closed; on the paths after
\* the popup opened the timer is not armed any more and the popup is closed.
C5_ExitPaths == {"response", "digital_credential", "remote", "decode", "timeout", "Popup blocked"}
C5_CleanupOnEveryExit ==
    \A e \in Exchanges :
        (result[e].status # "pending" /\ result[e].kind \in C5_ExitPaths) =>
            /\ chan[e] = "closed"
            /\ Opened(e) => (timeoutId[e] \in {"cleared", "fired"} /\ popup[e] = "closed")

\* One exchange was resolved by a success message while its popup was still
\* open, another was rejected because its popup was blocked
C5_Witness ==
    \E e1, e2 \in Exchanges :
        /\ result[e1].status = "resolved" /\ popup[e1] = "closed" /\ chan[e1] = "closed"
        /\ timeoutId[e1] = "cleared"
        /\ result[e2].kind = "Popup blocked" /\ chan[e2] = "closed"

\* C6 -- Popup-block fails fast: in every state in which window.open has
\* returned no handle, the channel is already closed and request() is already
\* rejected with the popup-blocked error; the timer firing later does not
\* change that rejection.
C6_PopupBlockFailsFast ==
    \A e \in Exchanges :
        /\ popup[e] = "blocked" =>
              /\ pc[e] = "threw" /\ chan[e] = "closed"
              /\ result[e].status = "rejected" /\ result[e].kind = "Popup blocked"
        /\ result[e].kind = "timeout" => Opened(e)

\* The popup was blocked, and the timer has fired since
C6_Witness ==
    \E e \in Exchanges :
        /\ popup[e] = "blocked" /\ timeoutId[e] = "fired"
        /\ result[e].kind = "Popup blocked"

\* C7 -- Exactly one outcome: once `done` is settled (resolved by a success
\* message, rejected by an error message or by the timeout), no later step
\* changes it or the promise request() returned, calls resolve or reject
\* again, or touches the timer or the channel.
C7_ExactlyOneOutcome ==
    [][\A e \in Exchanges :
          done[e].status # "pending" =>
              /\ done'[e] = done[e] /\ result'[e] = result[e]
              /\ settles[e] = 1 /\ settles'[e] = 1
              /\ timeoutId'[e] = timeoutId[e] /\ chan'[e] = chan[e]
      ]_vars

\* The exchange timed out and a matching success message that was queued
\* before was dropped afterwards
C7_Witness ==
    \E e \in Exchanges : \E i \in Handled(e) :
        /\ Opened(e) /\ result[e].kind = "timeout"
        /\ handled[e][i].exit = "dropped"
        /\ handled[e][i].msg.state = state[e]
        /\ Truthy(handled[e][i].msg.vp_token) /\ Truthy(handled[e][i].msg.smart_artifacts)
        /\ ~Truthy(handled[e][i].msg.error)

\* The checkinBase is missing, empty or only slashes
BaseMissing(o) == ~o.checkinBase.present \/ StripTrailingSlashes(o.checkinBase.val) = << >>

\* C8 -- InvalidQuery: a call of request() with an empty item list or with two
\* items of the same id (and a usable checkinBase) ends at once as a rejection
\* and creates nothing: no state, no channel, no timer, and the body is over
\* (so no callback runs and no popup opens).
C8_InvalidQuery ==
    [][\A e \in Exchanges : \A in \in RequestInputs :
          (/\ RequestCall(e, in[1], in[2])
           /\ in[1].truthy /\ in[1].isArray /\ ~ValidQuery(in[1])
           /\ ~BaseMissing(in[2]))
          => /\ pc'[e] = "threw" /\ result'[e].status = "rejected"
             /\ state'[e] = Foreign /\ chan'[e] = "none" /\ timeoutId'[e] = "none"
             /\ popup'[e] = "none"
      ]_vars

\* C9 -- MissingConfiguration: a call of request() with checkinBase absent,
\* empty or only slashes (and an acceptable query) is rejected with the
\* 'checkinBase required' error and creates no channel, no timer, no popup.
C9_MissingConfiguration ==
    [][\A e \in Exchanges : \A in \in RequestInputs :
          (RequestCall(e, in[1], in[2]) /\ in[1] = GoodQuery /\ BaseMissing(in[2]))
          => /\ pc'[e] = "threw" /\ result'[e].status = "rejected"
             /\ result'[e].kind = "checkinBase required"
             /\ chan'[e] = "none" /\ timeoutId'[e] = "none" /\ popup'[e] = "none"
      ]_vars

\* C10 -- Remote decline (OID4VP library): a message with the matching state
\* and an error field that reaches the handler rejects request() with
\* code = the message's error, state = the request state and text = the
\* error_description when there is one, else the error code, and cleanup ran.
C10_RemoteDecline ==
    \A e \in Exchanges : \A i \in Handled(e) :
        LET m == handled[e][i].msg IN
        (/\ opts[e].profile = "oid4vp" /\ ~m.nul /\ m.state = state[e]
         /\ Truthy(m.error) /\ handled[e][i].exit # "dropped")
        => /\ handled[e][i].exit = "settled"
           /\ result[e].status = "rejected"
           /\ result[e].code = m.error
           /\ result[e].state = state[e]
           /\ result[e].message =
                 (IF Truthy(m.error_description) THEN m.error_description ELSE m.error)
           /\ chan[e] = "closed" /\ timeoutId[e] = "cleared" /\ popup[e] = "closed"

\* The source declined with a description
C10_Witness ==
    \E e \in Exchanges :
        /\ Len(handled[e]) = 1 /\ handled[e][1].exit = "settled"
        /\ handled[e][1].msg.error = "access_denied"
        /\ handled[e][1].msg.error_description = "User declined"
        /\ result[e].status = "rejected" /\ result[e].code = "access_denied"
        /\ result[e].message = "User declined" /\ result[e].state = state[e]

\* C13 -- Rehydration correctness: rehydrateResponse gives every id of vp_token
\* a credentials entry with one element per presentation, in order, the i-th
\* being the data of the artifact the i-th presentation refers to (0-based);
\* an artifact referred to under several ids appears under each:
\* a -> [0,1], b -> [0] over [X-wrapper, Y-wrapper] gives {a: [X, Y], b: [X]}.
C13_RehydrationCorrectness ==
    calc.called =>
        /\ \A id \in DOMAIN calc.vp_token :
              /\ id \in DOMAIN calc.credentials
              /\ Len(calc.credentials[id]) = Len(calc.vp_token[id])
              /\ \A i \in 1..Len(calc.vp_token[id]) :
                    calc.vp_token[id][i] < Len(calc.smart_artifacts) =>
                        calc.credentials[id][i] =
                            calc.smart_artifacts[calc.vp_token[id][i] + 1].data
        /\ (/\ calc.vp_token = [a |-> <<0, 1>>, b |-> <<0>>]
            /\ calc.smart_artifacts = << [type |-> "fhir_resource", data |-> "X"],
                                         [type |-> "shl", data |-> "Y"] >>)
            => calc.credentials = [a |-> <<"X", "Y">>, b |-> <<"X">>]

\* The example of the claim was rehydrated
C13_Witness ==
    /\ calc.called
    /\ calc.vp_token = [a |-> <<0, 1>>, b |-> <<0>>]
    /\ calc.smart_artifacts = << [type |-> "fhir_resource", data |-> "X"],
                                 [type |-> "shl", data |-> "Y"] >>
    /\ calc.credentials = [a |-> <<"X", "Y">>, b |-> <<"X">>]

\* C14 -- Ids without artifacts: in the rehydrated result every request-item id
\* of the query is a key of credentials, and an id the response holds no
\* artifact for maps to the empty list.
C14_IdsWithoutArtifacts ==
    calc.called =>
        \A k \in 1..Len(calc.ids) :
            /\ calc.ids[k] \in DOMAIN calc.credentials
            /\ (calc.ids[k] \notin DOMAIN calc.vp_token
                    \/ calc.vp_token[calc.ids[k]] = << >>)
                => calc.credentials[calc.ids[k]] = << >>

\* C15 -- Rehydrate flag (OID4VP library): request() rehydrates unless the
\* rehydrate option is exactly false (omitted, true, null: rehydrated); the
\* value it resolves with then carries the credentials mapping built from the
\* response, and with rehydrate = false it is the raw response (state,
\* vp_token, smart_artifacts) without a credentials field.
C15_RehydrateFlag ==
    [][\A e \in Exchanges :
          /\ \A in \in RequestInputs :
                (RequestCall(e, in[1], in[2]) /\ pc'[e] = "armed")
                    => (opts'[e].shouldRehydrate <=> in[2].rehydrate # "false")
          /\ (result'[e].status = "resolved" /\ opts'[e].profile = "oid4vp") =>
                /\ result'[e].state = state'[e]
                /\ Truthy(result'[e].vp_token) /\ Truthy(result'[e].smart_artifacts)
                /\ result'[e].credentials =
                      (IF opts'[e].shouldRehydrate
                       THEN << rehydrateResponse(result'[e].vp_token,
                                                 result'[e].smart_artifacts) >>
                       ELSE << >>)
      ]_vars

\* One call without the option resolved with credentials, one call with
\* rehydrate = false resolved with the raw response
C15_Witness ==
    \E e1, e2 \in Exchanges :
        /\ result[e1].status = "resolved" /\ opts[e1].shouldRehydrate
        /\ result[e1].credentials = << [a |-> <<"X", "Y">>, b |-> <<"X">>] >>
        /\ result[e2].status = "resolved" /\ ~opts[e2].shouldRehydrate
        /\ opts[e2].profile = "oid4vp"
        /\ result[e2].vp_token = "V1" /\ result[e2].credentials = << >>

\* The fragment holds an error envelope / a success envelope / none
ErrorFragment(hash) == Has(hash, "state") /\ Truthy(GetStr(hash, "error"))
SuccessFragment(hash) ==
    /\ Has(hash, "state") /\ ~Truthy(GetStr(hash, "error"))
    /\ Truthy(GetStr(hash, "vp_token")) /\ Truthy(GetStr(hash, "smart_artifacts"))
    /\ "notjson" \notin {GetStr(hash, "vp_token"), GetStr(hash, "smart_artifacts")}
OrdinaryFragment(hash) ==
    \/ hash = << >>
    \/ ~Has(hash, "state")
    \/ /\ ~Truthy(GetStr(hash, "error"))
       /\ ~(Truthy(GetStr(hash, "vp_token")) /\ Truthy(GetStr(hash, "smart_artifacts")))

\* C16 -- End-to-end happy path: when a return page processes a success
\* fragment with state s, vp_token V and smart_artifacts A while the exchange
\* with state s is pending and listening, exactly the message {s, V, A} is
\* queued for it; and when such a message reaches the handler of the pending
\* exchange, request() resolves with state s, V and A unchanged and, with
\* rehydration on, credentials[id] is the data of the artifacts V assigns to id.
C16_HappyPath ==
    [][\A e \in Exchanges :
          /\ (/\ page'.loaded
              /\ \E o \in RenderOptions : LoadPage(page'.hash, o)
              /\ SuccessFragment(page'.hash) /\ GetState(page'.hash) = state[e]
              /\ chan[e] = "open" /\ done[e].status = "pending")
             => inbox'[e] = Append(inbox[e],
                    Msg(state[e], Absent, Absent, GetStr(page'.hash, "vp_token"),
                        GetStr(page'.hash, "smart_artifacts"), << >>))
          /\ (/\ Len(handled'[e]) = Len(handled[e]) + 1
              /\ chan[e] = "open" /\ done[e].status = "pending"
              /\ Head(inbox[e]).state = state[e] /\ ~Truthy(Head(inbox[e]).error)
              /\ Truthy(Head(inbox[e]).vp_token)
              /\ Truthy(Head(inbox[e]).smart_artifacts))
             => LET m == Head(inbox[e])
                    vp == VpTokenOf(m.vp_token)
                    arts == ArtifactsOf(m.smart_artifacts)
                IN  /\ result'[e].status = "resolved"
                    /\ result'[e].state = state[e]
                    /\ result'[e].vp_token = m.vp_token
                    /\ result'[e].smart_artifacts = m.smart_artifacts
                    /\ opts[e].shouldRehydrate =>
                          /\ result'[e].credentials # << >>
                          /\ \A id \in DOMAIN vp :
                                result'[e].credentials[1][id] =
                                    [i \in 1..Len(vp[id]) |-> arts[vp[id][i] + 1].data]
      ]_vars

\* A return page processed the success fragment of a pending exchange, and
\* request() resolved with its content and the rehydrated credentials
C16_Witness ==
    \E e \in Exchanges :
        /\ page.loaded /\ SuccessFragment(page.hash) /\ GetState(page.hash) = state[e]
        /\ GetStr(page.hash, "vp_token") = "V1"
        /\ Len(handled[e]) = 1 /\ handled[e][1].exit = "settled"
        /\ handled[e][1].msg = page.published[1].msg
        /\ result[e].status = "resolved" /\ result[e].state = state[e]
        /\ result[e].vp_token = "V1" /\ result[e].smart_artifacts = "A1"
        /\ result[e].credentials = << [a |-> <<"X", "Y">>, b |-> <<"X">>] >>

\* C18 -- Return handler on an ordinary page: with a fragment that holds no
\* response envelope (empty, or no state parameter, or a state without error
\* and without both vp_token and smart_artifacts) maybeHandleReturn returns
\* false, posts nothing, renders nothing and does not call window.close().
C18_OrdinaryPage ==
    (page.loaded /\ OrdinaryFragment(page.hash)) =>
        /\ page.returned = "false"
        /\ page.published = << >>
        /\ page.notice = << >>
        /\ ~page.closeAttempted

\* A page was loaded with error and response parameters but no state
C18_Witness ==
    /\ page.loaded /\ ~Has(page.hash, "state")
    /\ Truthy(GetStr(page.hash, "error")) /\ Truthy(GetStr(page.hash, "vp_token"))
    /\ page.returned = "false" /\ page.published = << >> /\ ~page.closeAttempted

\* C19 -- Return handler on a response: with an error envelope in the fragment
\* maybeHandleReturn posts exactly one message {state, error,
\* error_description} on the channel of the fragment's state and returns true;
\* with a success envelope it posts exactly one message {state, vp_token,
\* smart_artifacts} on that channel and returns true; the posted state is the
\* fragment's state.
C19_ResponsePage ==
    page.loaded =>
        /\ ErrorFragment(page.hash) =>
              /\ page.returned = "true"
              /\ page.published =
                    << [channel |-> Get(page.hash, "state"),
                        msg |-> Msg(Get(page.hash, "state"), GetStr(page.hash, "error"),
                                    IF Truthy(GetStr(page.hash, "error_description"))
                                    THEN GetStr(page.hash, "error_description") ELSE Absent,
                                    Absent, Absent, << >>)] >>
        /\ SuccessFragment(page.hash) =>
              /\ page.returned = "true"
              /\ page.published =
                    << [channel |-> Get(page.hash, "state"),
                        msg |-> Msg(Get(page.hash, "state"), Absent, Absent,
                                    GetStr(page.hash, "vp_token"),
                                    GetStr(page.hash, "smart_artifacts"), << >>)] >>

\* A page was loaded with an error envelope that has a description
C19_Witness ==
    /\ page.loaded /\ ErrorFragment(page.hash)
    /\ GetStr(page.hash, "error_description") = "User declined"
    /\ Len(page.published) = 1
    /\ page.published[1].msg.error = "access_denied"
    /\ page.published[1].msg.error_description = "User declined"
    /\ page.published[1].msg.state = Get(page.hash, "state")
    /\ page.returned = "true"

\* C20 (as claimed) -- whenever maybeHandleReturn returns true it has called
\* window.close(), with UI rendering enabled or suppressed.
C20_AlwaysAttemptsTermination ==
    (page.loaded /\ page.returned = "true") => page.closeAttempted

\* C20 (amended) -- when maybeHandleReturn returns true it has rendered the
\* notice and called window.close() exactly if opts.renderUI is not false;
\* with renderUI = false it only posts the message and returns true.
C20_TerminationWhenRendering ==
    (page.loaded /\ page.returned = "true") =>
        /\ page.closeAttempted <=> page.renderUI # "false"
        /\ page.notice # << >> <=> page.renderUI # "false"
        /\ Len(page.published) = 1

\* A response was handled with renderUI = false: posted, not closed
C20_Witness ==
    /\ page.loaded /\ page.returned = "true" /\ page.renderUI = "false"
    /\ SuccessFragment(page.hash)
    /\ Len(page.published) = 1 /\ page.notice = << >> /\ ~page.closeAttempted

\* C17 -- Cross-talk ignored: two exchanges pending at once have distinct
\* states; whatever is posted in whatever order, an exchange is settled by a
\* message only if the message carries its own state (and, OID4VP library,
\* settles with that state); and the step that settles one exchange leaves the
\* other's popup, timer, channel and promises as they were.
C17_CrossTalkIgnored ==
    [][\A e1, e2 \in Exchanges :
          e1 # e2 =>
              /\ (chan'[e1] # "none" /\ chan'[e2] # "none") => state'[e1] # state'[e2]
              /\ \A i \in 1..Len(handled'[e1]) :
                    handled'[e1][i].exit = "settled" =>
                        /\ handled'[e1][i].msg.state = state'[e1]
                        /\ handled'[e1][i].msg.state # state'[e2]
                        /\ opts'[e1].profile = "oid4vp" => result'[e1].state = state'[e1]
              /\ (done[e1].status = "pending" /\ done'[e1].status # "pending") =>
                    /\ popup'[e2] = popup[e2]
                    /\ timeoutId'[e2] = timeoutId[e2]
                    /\ chan'[e2] = chan[e2]
                    /\ done'[e2] = done[e2] /\ result'[e2] = result[e2]
                    /\ inbox'[e2] = inbox[e2]
      ]_vars

\* One exchange was resolved by its own response while the other, whose
\* response is already queued, is still pending with its popup open, its
\* timer armed and its channel listening
C17_Witness ==
    \E e1, e2 \in Exchanges :
        /\ e1 # e2
        /\ result[e1].status = "resolved" /\ popup[e1] = "closed" /\ chan[e1] = "closed"
        /\ Len(handled[e1]) = 1 /\ handled[e1][1].msg.state = state[e1]
        /\ done[e2].status = "pending" /\ pc[e2] = "returned"
        /\ popup[e2] = "open" /\ timeoutId[e2] = "armed" /\ chan[e2] = "open"
        /\ Len(inbox[e2]) = 1 /\ inbox[e2][1].state = state[e2]
        /\ WellFormed(inbox[e2][1])

\* The URL parameters that hold envelope content: the request (state, nonce,
\* query, or the encoded request envelope) and the result
RequestKeys == {"state", "nonce", "dcql_query", "req"}
ResponseKeys == {"vp_token", "smart_artifacts", "error", "error_description", "res"}

\* C11 -- Hash-only transport: in every navigation of the protocol (requester
\* to picker, picker to source, source back to the requester) state, nonce,
\* query and result appear in the fragment only, never in the query string.
C11_HashOnlyTransport ==
    \A i \in 1..Len(flow.navs) :
        QueryKeys(flow.navs[i].url) \cap (RequestKeys \cup ResponseKeys) = {}

\* C12 -- Picker never sees the response: no navigation that carries a result
\* or an error goes to the picker (it goes from the source to the requester's
\* URL), the picker context has received no response parameter, and when the
\* return page posts the response on the relay the picker's page is gone
\* (closed, or replaced by the source in its own window).
C12_PickerNeverSeesResponse ==
    /\ flow.saw["picker"] \cap ResponseKeys = {}
    /\ \A i \in 1..Len(flow.navs) :
          FragmentKeys(flow.navs[i].url) \cap ResponseKeys # {} =>
              /\ flow.navs[i].by = "source"
              /\ flow.navs[i].url.to = "requester"
    /\ (page.loaded /\ page.published # << >>) => ~flow.pickerOpen

\* The picker's own window was navigated to the source (its popup was
\* blocked), the source returned a success response to the requester's URL,
\* and the return page posted it
C12_Witness ==
    /\ flow.stage = "done" /\ Len(flow.navs) = 3 /\ flow.sourceWindow = "same"
    /\ flow.saw["picker"] = {"client_id", "response_type", "response_mode", "nonce",
                             "state", "dcql_query"}
    /\ "vp_token" \in flow.saw["requester"]
    /\ page.loaded /\ page.returned = "true" /\ Len(page.published) = 1

\* The fragment has a state parameter and both response parameters, and one
\* of them is not a JSON text
UndecodableFragment(hash) ==
    /\ Has(hash, "state") /\ ~Truthy(GetStr(hash, "error"))
    /\ Truthy(GetStr(hash, "vp_token")) /\ Truthy(GetStr(hash, "smart_artifacts"))
    /\ "notjson" \in {GetStr(hash, "vp_token"), GetStr(hash, "smart_artifacts")}

\* C21 -- Return handler never raises: whatever the fragment, maybeHandleReturn
\* settles with true or false (its promise is never rejected), and a fragment
\* whose vp_token or smart_artifacts is not valid JSON is reported as not a
\* return context: false is returned and nothing is posted.
C21_ReturnHandlerNeverRaises ==
    page.loaded =>
        /\ page.returned \in {"true", "false"}
        /\ UndecodableFragment(page.hash) =>
              page.returned = "false" /\ page.published = << >>

\* ------------------------------------------------------------ liveness
\* What the event loop of the requester's page guarantees: the synchronous
\* body of request() runs to its end once entered, and an armed timer fires.
\* Nothing is assumed of the other contexts or of message delivery.
Fairness ==
    \A e \in Exchanges :
        /\ WF_vars(RequestBuild(e))
        /\ WF_vars(\E blocked \in BOOLEAN : RequestOpen(e, blocked))
        /\ WF_vars(TimerFire(e))

LiveSpec == Init /\ [][Next]_vars /\ Fairness

\* C22 -- Eventual settlement: every call of request() whose popup opened is
\* eventually settled (resolved, rejected by an error message, or rejected by
\* the timeout), given only that an armed timer fires; and an exchange whose
\* popup the user closed and that no message settled ends with the timeout
\* rejection and with nothing else.
C22_EventualSettlement ==
    /\ \A e \in Exchanges :
          (pc[e] = "returned") ~> (result[e].status # "pending" /\ settles[e] = 1)
    /\ [](\A e \in Exchanges :
            (Opened(e) /\ SettlingMsgs(e) = {} /\ result[e].status # "pending")
                => result[e].kind = "timeout")

\* C23 -- Fresh state per attempt: every call of request() that passes
\* validation draws a state no earlier call drew and (OID4VP library) a nonce
\* from a draw of its own, and creates a channel object of its own under the
\* name 'shl-' + state, which no other exchange uses; state and nonce of an
\* exchange never change afterwards, and a channel that was closed is never
\* opened again, so a retry after a timeout or a decline shares nothing with
\* the attempt before.
C23_FreshStatePerAttempt ==
    [][\A e \in Exchanges :
          /\ (state[e] = Foreign /\ state'[e] # Foreign) =>
                /\ state'[e] \in Tokens
                /\ \A x \in Exchanges \ {e} :
                      /\ state'[e] # state[x] /\ state'[e] # nonce[x]
                      /\ chan'[x] = chan[x]
                /\ opts'[e].profile = "oid4vp" =>
                      /\ nonce'[e] \in Tokens /\ nonce'[e] # state'[e]
                      /\ \A x \in Exchanges \ {e} :
                            nonce'[e] # state[x] /\ nonce'[e] # nonce[x]
                /\ chan[e] = "none" /\ chan'[e] = "open"
          /\ state[e] # Foreign => (state'[e] = state[e] /\ nonce'[e] = nonce[e])
          /\ chan[e] = "closed" => chan'[e] = "closed"
          /\ chan[e] = "open" => chan'[e] \in {"open", "closed"}
      ]_vars

\* The first exchange was declined by the source; request() was called again
\* and the second call has a state, a nonce and an open channel of its own
C23_Witness ==
    \E e1, e2 \in Exchanges :
        /\ e1 < e2
        /\ result[e1].status = "rejected" /\ result[e1].kind = "remote"
        /\ chan[e1] = "closed"
        /\ pc[e2] = "armed" /\ chan[e2] = "open"
        /\ state[e2] \in Tokens /\ state[e2] # state[e1]
        /\ nonce[e2] \notin {state[e1], nonce[e1], state[e2]}

\* The exchanges request() was called for, and those a popup was opened for,
\* a channel created for, a timer armed for
Called == {e \in Exchanges : pc[e] # "idle"}
Subscribed == {e \in Exchanges : chan[e] # "none"}
Timed == {e \in Exchanges : timeoutId[e] # "none"}

\* C24 -- No automatic retry: a popup is opened, a timer armed and a channel
\* created only by a step of the body of a request() call, each at most once
\* per call; after an exchange ended with a rejection (error message, decode
\* error, timeout, blocked popup) nothing of it is opened, armed or created
\* again; and there are never more popups, timers or channels than calls.
C24_NoAutomaticRetry ==
    [][/\ \A e \in Exchanges :
             /\ (chan[e] # "open" /\ chan'[e] = "open") =>
                    (pc[e] = "idle" /\ pc'[e] = "armed" /\ chan[e] = "none")
             /\ (timeoutId[e] # "armed" /\ timeoutId'[e] = "armed") =>
                    (pc[e] = "idle" /\ pc'[e] = "armed" /\ timeoutId[e] = "none")
             /\ (popup[e] # "open" /\ popup'[e] = "open") =>
                    (pc[e] = "built" /\ pc'[e] = "returned" /\ popup[e] = "none")
             /\ result[e].status = "rejected" =>
                    /\ chan'[e] = "open" => chan[e] = "open"
                    /\ popup'[e] = "open" => popup[e] = "open"
                    /\ timeoutId'[e] = "armed" => timeoutId[e] = "armed"
       /\ Cardinality({e \in Exchanges : Opened(e)}) <= Cardinality(Called)
       /\ Cardinality(Subscribed) <= Cardinality(Called)
       /\ Cardinality(Timed) <= Cardinality(Called)
      ]_vars

\* The only call timed out after the user had closed the popup, a late
\* message was dropped, and nothing was opened, armed or created since
C24_Witness ==
    /\ result[1].status = "rejected" /\ result[1].kind = "timeout"
    /\ \E i \in Handled(1) : handled[1][i].exit = "dropped"
    /\ popup[1] = "closed" /\ chan[1] = "closed" /\ timeoutId[1] = "fired"
    /\ \A e \in Exchanges \ {1} :
          pc[e] = "idle" /\ popup[e] = "none" /\ chan[e] = "none" /\ timeoutId[e] = "none"

\* C25 -- onRequestStart callback (OID4VP library): when the option is
\* supplied, the callback is invoked exactly once in every call of request()
\* that passes validation, inside the body, at a moment when the channel is
\* open and the timer armed and window.open has not been called; it is invoked
\* at no other moment; and the URL window.open is then called with carries
\* the client_id, state, nonce and query the callback was given.
C25_OnRequestStart ==
    [][\A e \in Exchanges :
          /\ (pc[e] = "armed" /\ pc'[e] # "armed") =>
                IF CallsBack(opts[e])
                THEN /\ start[e].calls = << >> /\ Len(start'[e].calls) = 1
                     /\ start'[e].calls[1].chan = "open"
                     /\ start'[e].calls[1].timeoutId = "armed"
                     /\ start'[e].calls[1].popup = "none"
                     /\ start'[e].url = << >>
                     /\ start'[e].calls[1].args.state = state[e]
                     /\ start'[e].calls[1].args.nonce = nonce[e]
                     /\ start'[e].calls[1].args.dcql_query = dcqlQuery[e]
                ELSE start'[e].calls = << >>
          /\ pc[e] # "armed" => start'[e].calls = start[e].calls
          /\ (pc[e] = "built" /\ pc'[e] # "built" /\ start[e].calls # << >>) =>
                /\ Len(start'[e].url) = 1
                /\ start'[e].url[1].query = start[e].calls[1].args
      ]_vars

\* The callback was invoked once, before the popup opened, with the
\* parameters of the popup's URL; the exchange is now waiting
C25_Witness ==
    \E e \in Exchanges :
        /\ pc[e] = "returned" /\ popup[e] = "open"
        /\ Len(start[e].calls) = 1 /\ Len(start[e].url) = 1
        /\ start[e].calls[1].popup = "none" /\ start[e].calls[1].chan = "open"
        /\ start[e].calls[1].args.state = state[e]
        /\ start[e].calls[1].args.nonce = nonce[e]
        /\ start[e].calls[1].args.nonce # state[e]
        /\ start[e].url[1].query = start[e].calls[1].args

\* C26 -- Codec round-trip: for every request envelope and every response
\* envelope, the text encJ makes of it holds only letters, digits, '-' and
\* '_', and decJ of that text gives the envelope back.
C26_CodecRoundTrip ==
    /\ codec.stage \in {"encoded", "decoded"} =>
          \A i \in 1..Len(codec.text) : codec.text[i] \in UrlSafe
    /\ codec.stage = "decoded" => codec.decoded = codec.env

\* An envelope whose JSON text has a two-byte character, whose base64 text
\* has a '+' (sent as '-') and padding (removed), came back from decJ
C26_Witness ==
    /\ codec.stage = "decoded"
    /\ codec.env[1].kind = "response"
    /\ \E i \in 1..Len(codec.env[1].content) : codec.env[1].content[i] = 233
    /\ \E i \in 1..Len(codec.text) : codec.text[i] = MinusSym
    /\ Len(codec.text) % 4 # 0
    /\ codec.decoded = codec.env

\* C27 -- Non-matching messages leave the exchange untouched: when the
\* handler of a listening exchange is given a null message or a message whose
\* state is missing or differs from the exchange's state, it returns at the
\* first test; timer, popup, channel, promise and result of every exchange
\* are what they were, whatever else the message carries.
C27_NonMatchingIgnored ==
    [][\A e \in Exchanges :
          (/\ chan[e] = "open"
           /\ Len(handled'[e]) = Len(handled[e]) + 1
           /\ \/ handled'[e][Len(handled'[e])].msg.nul
              \/ handled'[e][Len(handled'[e])].msg.state # state[e])
          => /\ handled'[e][Len(handled'[e])].exit \in {"null", "state"}
             /\ timeoutId' = timeoutId /\ popup' = popup /\ chan' = chan
             /\ done' = done /\ result' = result /\ settles' = settles
      ]_vars

\* A complete success message without a state and a null message were both
\* handled; the exchange is pending, its timer armed, its popup open, its
\* channel open
C27_Witness ==
    \E e \in Exchanges :
        /\ Len(handled[e]) = 2
        /\ \E i \in Handled(e) :
              /\ handled[e][i].msg.state = NoState /\ handled[e][i].exit = "state"
              /\ Truthy(handled[e][i].msg.vp_token)
        /\ \E i \in Handled(e) : handled[e][i].msg.nul /\ handled[e][i].exit = "null"
        /\ result[e].status = "pending" /\ done[e].status = "pending"
        /\ timeoutId[e] = "armed" /\ popup[e] = "open" /\ chan[e] = "open"

\* The message event the step hands to the handler of the listening exchange e
Dispatched(e) == chan[e] = "open" /\ Len(handled'[e]) = Len(handled[e]) + 1
Last(e) == handled'[e][Len(handled'[e])]

\* C28 -- Simple profile, inner state check: a message whose own state is
\* the exchange's state and whose res decodes to an envelope with another
\* state (or none) is ignored: the handler returns without cleanup, and
\* timer, channel, popup, promise and result are what they were.
C28_InnerStateCheck ==
    [][\A e \in Exchanges :
          (/\ Dispatched(e) /\ opts[e].profile = "simple"
           /\ ~Last(e).msg.nul /\ Last(e).msg.state = state[e]
           /\ Last(e).msg.res # << >> /\ Last(e).msg.res[1] = "env"
           /\ Last(e).msg.res[2] # state[e])
          => /\ Last(e).exit = "inner"
             /\ timeoutId' = timeoutId /\ popup' = popup /\ chan' = chan
             /\ done' = done /\ result' = result /\ settles' = settles
      ]_vars

\* Such a message was handled by an exchange of the simple profile, which is
\* still waiting
C28_Witness ==
    \E e \in Exchanges : \E i \in Handled(e) :
        /\ opts[e].profile = "simple"
        /\ handled[e][i].exit = "inner"
        /\ handled[e][i].msg.state = state[e]
        /\ handled[e][i].msg.res[1] = "env" /\ handled[e][i].msg.res[2] = Foreign
        /\ result[e].status = "pending" /\ done[e].status = "pending"
        /\ timeoutId[e] = "armed" /\ popup[e] = "open" /\ chan[e] = "open"

\* C29 -- Simple profile, decode failure: when the handler of a listening
\* exchange is given a message with the exchange's state whose res cannot be
\* decoded, cleanup runs (the timer is cancelled, the channel closed, the
\* popup closed if it was open) and request() is rejected with the decode
\* error; the rejection is the only settlement of the exchange and no later
\* step changes it.
C29_DecodeFailure ==
    [][\A e \in Exchanges :
          /\ (/\ Dispatched(e) /\ opts[e].profile = "simple"
              /\ ~Last(e).msg.nul /\ Last(e).msg.state = state[e]
              /\ Last(e).msg.res # << >> /\ Last(e).msg.res[1] # "env")
             => /\ Last(e).exit = "settled"
                /\ timeoutId[e] = "armed" /\ timeoutId'[e] = "cleared"
                /\ chan'[e] = "closed"
                /\ popup'[e] = (IF popup[e] = "open" THEN "closed" ELSE popup[e])
                /\ done[e].status = "pending"
                /\ done'[e].status = "rejected" /\ done'[e].kind = "decode"
                /\ result'[e] = done'[e]
                /\ settles'[e] = 1
          /\ result[e].kind = "decode"
             => /\ result'[e] = result[e] /\ settles'[e] = 1
                /\ chan'[e] = "closed" /\ timeoutId'[e] = "cleared"
      ]_vars

\* An undecodable res with the matching state rejected an exchange of the
\* simple profile whose popup was open; a message that followed was dropped
C29_Witness ==
    \E e \in Exchanges :
        /\ opts[e].profile = "simple" /\ Len(handled[e]) = 2
        /\ handled[e][1].msg.res = <<"bad">> /\ handled[e][1].exit = "settled"
        /\ handled[e][2].exit = "dropped"
        /\ result[e].status = "rejected" /\ result[e].kind = "decode"
        /\ settles[e] = 1
        /\ timeoutId[e] = "cleared" /\ chan[e] = "closed" /\ popup[e] = "closed"

\* The res parameter of the page's fragment, << >> when there is none
PageRes == IF page.hash = << >> THEN << >> ELSE page.hash[1][2]

\* C30 -- Simple profile, no partial decoding in the return handler:
\* maybeHandleReturn posts a message only when res decodes to an envelope that
\* has a state, and then exactly { state: the envelope's state, res } on the
\* channel of that state, returning true; when res is absent, cannot be
\* decoded, or decodes to an envelope without state, it returns false, posts
\* nothing, writes no notice, does not call window.close() and does not throw.
C30_NoPartialDecoding ==
    page.loaded =>
        /\ page.returned \in {"true", "false"}
        /\ IF PageRes # << >> /\ PageRes[1] = "env" /\ PageRes[2] # NoState
           THEN /\ page.returned = "true"
                /\ page.published =
                      << [channel |-> PageRes[2],
                          msg |-> Msg(PageRes[2], Absent, Absent, Absent, Absent, PageRes)] >>
           ELSE /\ page.returned = "false" /\ page.published = << >>
                /\ page.notice = << >> /\ ~page.closeAttempted

\* While an exchange of the simple profile was waiting, a page was loaded
\* with a res that decodes to an envelope without state: false, nothing
\* posted, the exchange undisturbed
C30_Witness ==
    /\ page.loaded /\ PageRes = <<"env", NoState, "P1">>
    /\ page.returned = "false" /\ page.published = << >>
    /\ \E e \in Exchanges :
          /\ opts[e].profile = "simple" /\ pc[e] = "returned"
          /\ inbox[e] = << >> /\ handled[e] = << >> /\ result[e].status = "pending"

\* C31 -- Duplicate return handling: a second call of maybeHandleReturn in
\* the same return page posts the same message once more, to every channel
\* that listens on the state; and of two equal matching well-formed messages
\* that reach an exchange only the first can settle it, the second is
\* dropped, and resolve/reject was called once.
C31_DuplicateReturn ==
    /\ [][(page.loaded /\ Len(page.published) = 1 /\ Len(page'.published) = 2) =>
            /\ page'.published[2] = page.published[1]
            /\ \A e \in Exchanges :
                  (chan[e] = "open" /\ state[e] = page.published[1].channel)
                      => inbox'[e] = Append(inbox[e], page.published[1].msg)
         ]_vars
    /\ [](\A e \in Exchanges :
            /\ settles[e] <= 1
            /\ \A i, j \in Handled(e) :
                  (/\ i < j /\ handled[e][i].msg = handled[e][j].msg
                   /\ WellFormed(handled[e][i].msg)
                   /\ handled[e][i].msg.state = state[e])
                  => /\ handled[e][j].exit = "dropped"
                     /\ handled[e][i].exit \in {"settled", "dropped"}
                     /\ settles[e] = 1)

\* The return page published its success response twice; the waiting
\* exchange was resolved by the first message and dropped the second
C31_Witness ==
    /\ page.loaded /\ Len(page.published) = 2
    /\ page.published[1] = page.published[2]
    /\ \E e \in Exchanges :
          /\ Len(handled[e]) = 2
          /\ handled[e][1].msg = page.published[1].msg
          /\ handled[e][2].msg = page.published[1].msg
          /\ handled[e][1].exit = "settled" /\ handled[e][2].exit = "dropped"
          /\ result[e].status = "resolved" /\ settles[e] = 1

\* C32 -- Rehydration frame: the object rehydrateResponse returns has the
\* input's state, vp_token and smart_artifacts as they were given and one
\* more field, credentials, whose keys are exactly the keys of vp_token; the
\* input itself is not changed by the call.
C32_RehydrationFrame ==
    /\ [](calc.called =>
            /\ DOMAIN calc.returned[1] =
                  {"state", "vp_token", "smart_artifacts", "credentials"}
            /\ calc.returned[1].state = calc.state
            /\ calc.returned[1].vp_token = calc.vp_token
            /\ calc.returned[1].smart_artifacts = calc.smart_artifacts
            /\ DOMAIN calc.returned[1].credentials = DOMAIN calc.vp_token)
    /\ [][/\ calc'.state = calc.state /\ calc'.vp_token = calc.vp_token
          /\ calc'.smart_artifacts = calc.smart_artifacts]_vars

\* A response with two ids, one of them with a presentation that refers to
\* no artifact, was rehydrated
C32_Witness ==
    /\ calc.called /\ DOMAIN calc.vp_token = {"a", "b"}
    /\ Len(calc.vp_token["a"]) = 2 /\ calc.vp_token["b"] = << >>
    /\ Len(calc.smart_artifacts) = 1
    /\ calc.returned[1].vp_token = calc.vp_token
    /\ DOMAIN calc.returned[1].credentials = {"a", "b"}
    /\ calc.returned[1].credentials["b"] = << >>

\* C33 -- Popup-blocked path leaves nothing armed: once window.open has
\* returned no handle and request() has rejected, the timer of that exchange
\* is not armed, it never fires, and the inner promise `done` is never
\* rejected by it (resolve/reject is never called for that call).
C33_BlockedLeavesNothingArmed ==
    \A e \in Exchanges :
        popup[e] = "blocked" =>
            /\ timeoutId[e] \notin {"armed", "fired"}
            /\ settles[e] = 0 /\ done[e].status = "pending"

\* C34 -- Callback failure releases resources: when opts.onRequestStart
\* throws, request() is rejected with what it threw, no popup is opened, the
\* channel created before the callback is closed and the timer is not armed
\* any more.
C34_CallbackFailureReleases ==
    \A e \in Exchanges :
        (result[e].status = "rejected" /\ result[e].kind = "callback") =>
            /\ popup[e] = "none"
            /\ chan[e] = "closed"
            /\ timeoutId[e] # "armed"

\* C35 -- Incomplete matching message is ignored (OID4VP library): when the
\* handler of a listening exchange is given a message with the exchange's
\* state, no error, and not both vp_token and smart_artifacts, it falls
\* through every branch: nothing is resolved or rejected, and timer, channel
\* and popup are what they were, so the exchange keeps listening.
C35_IncompleteIgnored ==
    [][\A e \in Exchanges :
          (/\ Dispatched(e) /\ opts[e].profile = "oid4vp"
           /\ ~Last(e).msg.nul /\ Last(e).msg.state = state[e]
           /\ ~Truthy(Last(e).msg.error)
           /\ ~(Truthy(Last(e).msg.vp_token) /\ Truthy(Last(e).msg.smart_artifacts)))
          => /\ Last(e).exit = "incomplete"
             /\ timeoutId' = timeoutId /\ popup' = popup /\ chan' = chan
             /\ done' = done /\ result' = result /\ settles' = settles
      ]_vars

\* A matching message with a vp_token and no smart_artifacts was ignored,
\* and the complete message that followed resolved the exchange
C35_Witness ==
    \E e \in Exchanges :
        /\ opts[e].profile = "oid4vp" /\ Len(handled[e]) = 2
        /\ handled[e][1].exit = "incomplete" /\ handled[e][1].msg.state = state[e]
        /\ Truthy(handled[e][1].msg.vp_token)
        /\ ~Truthy(handled[e][1].msg.smart_artifacts)
        /\ handled[e][2].exit = "settled" /\ handled[e][2].msg.state = state[e]
        /\ result[e].status = "resolved" /\ settles[e] = 1

\* C36 -- Error takes precedence (OID4VP library): a return fragment with a
\* state and a non-empty error is parsed as the error variant even when
\* vp_token and smart_artifacts are there too, so the page relays the error
\* and none of the success fields; and a relayed message with the exchange's
\* state and a non-empty error rejects the exchange even when it has
\* vp_token and smart_artifacts too: the exchange is never resolved by it.
C36_ErrorTakesPrecedence ==
    /\ [](page.loaded /\ Has(page.hash, "state") /\ Truthy(GetStr(page.hash, "error"))
          => /\ parseReturnHash(page.hash).type = "error"
             /\ parseReturnHash(page.hash).vp_token = Absent
             /\ page.returned = "true"
             /\ Len(page.published) = 1
             /\ page.published[1].msg.error = GetStr(page.hash, "error")
             /\ page.published[1].msg.vp_token = Absent
             /\ page.published[1].msg.smart_artifacts = Absent)
    /\ [][\A e \in Exchanges :
            (/\ Dispatched(e) /\ opts[e].profile = "oid4vp"
             /\ ~Last(e).msg.nul /\ Last(e).msg.state = state[e]
             /\ Truthy(Last(e).msg.error))
            => /\ Last(e).exit = "settled"
               /\ done'[e].status = "rejected"
               /\ done'[e].code = Last(e).msg.error
               /\ done'[e].vp_token = Absent
               /\ result'[e].status # "resolved"
        ]_vars

\* A page was loaded with a fragment that has an error next to vp_token and
\* smart_artifacts, and an exchange was rejected by a message that has an
\* error next to vp_token and smart_artifacts
C36_Witness ==
    /\ page.loaded /\ Truthy(GetStr(page.hash, "error"))
    /\ Truthy(GetStr(page.hash, "vp_token")) /\ Truthy(GetStr(page.hash, "smart_artifacts"))
    /\ page.returned = "true"
    /\ \E e \in Exchanges : \E i \in 1..Len(handled[e]) :
        /\ handled[e][i].exit = "settled"
        /\ Truthy(handled[e][i].msg.error)
        /\ Truthy(handled[e][i].msg.vp_token)
        /\ Truthy(handled[e][i].msg.smart_artifacts)
        /\ result[e].status = "rejected" /\ result[e].code = handled[e][i].msg.error

\* C37 -- Relay message state equals channel key: whatever data object
\* broadcastResponse(s, d) is called with, the message it posts on the
\* channel of s has the state s, and the page's channel handle is closed
\* right after the post.
C37_RelayStateIsChannelKey ==
    (page.loaded /\ page.returned = "none") =>
        /\ Len(page.published) = 1
        /\ page.published[1].msg.state = page.published[1].channel
        /\ page.effects = <<"post", "bcclose">>

\* Every b in the sequence comes after some a
Precedes(seq, a, b) ==
    \A j \in 1..Len(seq) : seq[j] = b => \E i \in 1..(j - 1) : seq[i] = a

\* C38 -- Publish before close: in a page that ran maybeHandleReturn() of
\* either library, window.close() is called only after the relay message was
\* posted: a page that tried to close itself has published its response, and
\* the post comes before the close in the order of its effects.
C38_PublishBeforeClose ==
    page.loaded =>
        /\ page.closeAttempted <=> (\E j \in 1..Len(page.effects) : page.effects[j] = "close")
        /\ page.closeAttempted => Len(page.published) = 1
        /\ Precedes(page.effects, "post", "close")
        /\ Precedes(page.effects, "post", "bcclose")

\* A page with a success fragment of the OID4VP library posted the response,
\* wrote the notice and then called window.close()
C38_Witness ==
    /\ page.loaded /\ Has(page.hash, "vp_token") /\ page.returned = "true"
    /\ page.closeAttempted /\ Len(page.published) = 1
    /\ Truthy(page.published[1].msg.vp_token)
    /\ page.effects = <<"post", "bcclose", "notice", "close">>

\* C39 -- Picker forwards the request unchanged: the picker launches a
\* source only for a URL that has client_id, state and nonce, and then with
\* the client_id, state, nonce and dcql_query of that URL (a missing
\* dcql_query is forwarded as the empty object); for a URL without one of the
\* three it shows an error, launches nothing and stays open.  On a click it
\* first opens the source window and then closes itself, or, when that
\* window was blocked, navigates itself to the source and does not close.
C39_PickerForwardsUnchanged ==
    LET got == flow.navs[1].url.query
        complete == /\ Truthy(got.client_id) /\ got.state # NoState
                    /\ got.nonce # NoState
    IN
    /\ flow.stage \in {"picker", "pickerError"} =>
        /\ ~complete => flow.stage = "pickerError"
        /\ flow.launch = << >> /\ Len(flow.navs) = 1
        /\ flow.pickerOpen /\ flow.pickerDid = << >> /\ flow.sourceWindow = "none"
    /\ flow.stage = "source" =>
        /\ complete
        /\ Len(flow.navs) = 2 /\ flow.navs[2].url.to = "source"
        /\ flow.navs[2].url.query = flow.launch[1]
        /\ flow.launch[1].client_id = got.client_id
        /\ flow.launch[1].state = got.state
        /\ flow.launch[1].nonce = got.nonce
        /\ flow.launch[1].dcql_query =
                IF got.dcql_query = MissingParam THEN NoArrayQuery ELSE got.dcql_query
        /\ flow.sourceWindow = "new" <=> flow.pickerDid = <<"open", "close">>
        /\ flow.sourceWindow = "same" <=> flow.pickerDid = <<"open", "navigate">>
        /\ flow.sourceWindow \in {"new", "same"}
        /\ Precedes(flow.pickerDid, "open", "close")

\* The picker got a complete request, launched the source with it in a new
\* window and closed itself
C39_Witness ==
    /\ flow.stage = "source" /\ flow.sourceWindow = "new"
    /\ flow.navs[1].url.query.dcql_query = GoodQuery
    /\ flow.launch[1] = flow.navs[1].url.query
    /\ flow.pickerDid = <<"open", "close">> /\ ~flow.pickerOpen

====
